---- MODULE Spec2Model ----
(***************************************************************************)
(* Theater-mode event queue client (web/src/theater/events/handler.ts).    *)
(* The module-level state of handler.ts, the long-poll loop poll(), its    *)
(* two suspension points (await fetch, await response.json()), the backoff *)
(* timers created by setTimeout(poll, 5000) and the two exported entry     *)
(* points initializeEventHandler / cleanupEventHandler.                    *)
(***************************************************************************)
EXTENDS Integers, Sequences, FiniteSets, TLC

\* ------------------------------------------------------------------ bounds
\* Number of registrations (server-issued queue ids) in one page life.
MaxQueues == 2
\* Event ids a response can carry: 0..MaxEventId.
MaxEventId == 1
\* Longest batch of events in one poll response.
MaxBatch == 2
\* Length of the dispatch log kept for one page life.
MaxDispatched == 2
\* User ids (people and bots): 1..MaxUser.
MaxUser == 2
\* Message ids of message events: 1..MaxMessageId.
MaxMessageId == 2
\* Longest message store.
MaxMessages == 2

\* --------------------------------------------------------------- constants
NoQueue == 0
NoController == 0
NoRequest == [queue_id |-> NoQueue, last_event_id |-> 0 - 1]

EventIds == 0..MaxEventId
\* ok = FALSE: an event whose handler throws (a required field is missing).
Events == [id : EventIds, ok : BOOLEAN]
Batches == UNION {[1..n -> Events] : n \in 0..MaxBatch}
\* Seed event ids handed to initializeEventHandler.
InitialEventIds == {0 - 1, 0}

VARIABLES
    eventQueueId,     \* handler.ts:10  NoQueue = null
    lastEventId,      \* handler.ts:11
    isPolling,        \* handler.ts:12
    abortController,  \* handler.ts:13  id of the poll() call that created it
    polls,            \* suspended poll() calls, each with its request
    timers,           \* pending setTimeout(poll, 5000) callbacks
    reloadRequested,  \* window.location.reload() has been called
    expired,          \* queue ids a poll was answered with status 400 for
    deleted,          \* queue ids a DELETE /json/events was sent for
    nextQueue,        \* next queue id the server will issue
    dispatched,       \* log of dispatchEvent calls: the event ids, in call order
    lastBatchMax,     \* largest event id of the batch just parsed (-1: none)
    lastRequest,      \* the GET /json/events sent by the last step, if any
    lastStep,         \* the operation that produced the current state
    deleting          \* queue ids with a DELETE /json/events awaiting its outcome

clientVars == <<eventQueueId, lastEventId, isPolling, abortController, polls,
                timers, reloadRequested, expired, deleted, nextQueue, dispatched,
                lastBatchMax, lastRequest, lastStep, deleting>>

VARIABLES
    whisper,          \* the display message handed to isVisible
    groupMembers,     \* Recipient Directory: group id -> member user ids
    personaOwner,     \* Recipient Directory: persona id -> owning user id
    isVisibleResults, \* what the last two isVisible calls returned, oldest first
    messages,         \* navigation.ts:198  the message store, a list
    lastEvent,        \* the event or store call that produced the current store
    notified,         \* the store values its subscribers were called with by it
    typists,          \* part_004:16  "streamId:topic" -> list of typists
    timeouts,         \* part_004:19  timeout key -> handle of its expiry timer
    typingTimers,     \* pending setTimeout callbacks of the typing store
    typingStep,       \* the typing store operation that produced the state
    sinceStart,       \* timeout key -> time since its latest typing start
    presence,         \* presence.ts:23  user id -> cast member
    presenceEvent,    \* the presence event handled last
    pendingEvents,    \* the events of the received batch still to be dispatched
    rawPayload,       \* the raw message handed to toTheaterMessage
    displayed,        \* the character fields of the display message built from it
    pills,            \* compose_whisper_pill.ts:40  the items of the pill widget
    composeState,     \* the whisper recipients held by compose_state
    current_stream_id,  \* compose_whisper_pill.ts:44
    navigation,       \* navigation.ts:72  currentStreamId and currentTopic of the store
    locationHash,     \* window.location.hash, a sequence of characters
    handlingPopstate, \* navigation.ts:79
    navStep,          \* the last call on the navigation store and what it did
    stageScene,       \* Stage.svelte: the streamId of the scene on show
    loads,            \* Stage.svelte:68  the loadMessages calls awaiting fetchMessages
    serverMessages,   \* the stream of every message the server holds, by id
    stageEvents       \* ids of the message events not delivered yet

resolverVars == <<whisper, groupMembers, personaOwner, isVisibleResults>>
storeVars == <<messages, lastEvent, notified>>
typingVars == <<typists, timeouts, typingTimers, typingStep, sinceStart>>
presenceVars == <<presence, presenceEvent>>
dispatchVars == <<pendingEvents>>

\* The state of the dispatcher and of the user interface around the stores.
characterVars == <<rawPayload, displayed>>
composeVars == <<pills, composeState, current_stream_id>>
navVars == <<navigation, locationHash, handlingPopstate, navStep>>
stageVars == <<stageScene, loads, serverMessages, stageEvents>>
uiVars == <<dispatchVars, characterVars, composeVars, navVars, stageVars>>

\* The stores, the directory and the user interface, which the event queue
\* client never touches.
reconcilerVars == <<resolverVars, storeVars, typingVars, presenceVars, uiVars>>

vars == <<clientVars, reconcilerVars>>

\* One suspended poll() call: the request it sent and where it awaits.
\*   pc = "fetch": awaiting fetch();  pc = "json": awaiting response.json()
PollRecord(i, q) ==
    [id |-> i, queue |-> q, pc |-> "fetch", aborted |-> FALSE]

FreshPollId(ps) ==
    CHOOSE i \in 1..(Cardinality(ps) + 1) : \A p \in ps : p.id # i

\* Requests on the wire: sent, not completed, abort signal not triggered.
InFlight == {r \in polls : ~r.aborted}

\* poll(), up to its first await: the guard, the new AbortController, the
\* request parameterized by the current queue id and last event id.
Poll(ps, ctrl, polling, q, last) ==
    IF ~polling \/ q = NoQueue
    THEN [polls |-> ps, ctrl |-> ctrl, req |-> NoRequest, sent |-> FALSE]
    ELSE LET i == FreshPollId(ps)
         IN [polls |-> ps \cup {PollRecord(i, q)}, ctrl |-> i,
             req |-> [queue_id |-> q, last_event_id |-> last], sent |-> TRUE]

\* Variant: lastEventId = eventId, without Math.max.
AssignLastEventId(last, eventId) ==
    eventId

\* Math.max(lastEventId, eventId)
AdvanceLastEventId(last, eventId) ==
    IF eventId > last THEN eventId ELSE last

\* The for-loop over data.events: advance lastEventId, then dispatchEvent;
\* a throwing handler leaves the loop.
RECURSIVE ProcessEvents(_, _, _)
ProcessEvents(events, last, log) ==
    IF events = <<>>
    THEN [last |-> last, log |-> log, threw |-> FALSE]
    ELSE LET e == Head(events)
             last2 == AdvanceLastEventId(last, e.id)
             log2 == Append(log, e.id)
         IN IF ~e.ok
            THEN [last |-> last2, log |-> log2, threw |-> TRUE]
            ELSE ProcessEvents(Tail(events), last2, log2)

\* The largest event id of a batch, -1 for an empty one.
RECURSIVE MaxIdOf(_)
MaxIdOf(events) ==
    IF events = <<>> THEN 0 - 1
    ELSE LET m == MaxIdOf(Tail(events))
         IN IF Head(events).id > m THEN Head(events).id ELSE m

\* ------------------------------------------------- messages and whispers
Users == 1..MaxUser
MessageIds == 1..MaxMessageId
\* The user the page runs for: the viewer of every isVisible call it makes.
LocalViewer == 1
StreamIds == {1, 2}
GroupIds == {1}
PuppetIds == {1, 2}
PersonaIds == {1}

\* raw["whisper_recipients"]: null, undefined (the key is absent), or an
\* object with the recipient lists (a missing list is an empty one).
Null == [kind |-> "null"]
Undefined == [kind |-> "undefined"]
Recipients(users, groups, puppets, personas) ==
    [kind |-> "object", user_ids |-> users, group_ids |-> groups,
     puppet_ids |-> puppets, persona_ids |-> personas]

NoRecipients == Recipients({}, {}, {}, {})

WhisperRecipients ==
    {Recipients(r[1], r[2], r[3], r[4]) :
        r \in (SUBSET Users) \X (SUBSET GroupIds) \X (SUBSET PuppetIds)
                \X (SUBSET PersonaIds)}

RawWhisperRecipients == {Null, Undefined} \cup WhisperRecipients

\* A key the payload does not carry (undefined).
NoValue == "undefined"

\* The raw message payload of the API and of a message event.
RawMessage(id, sender, stream, recipients) ==
    [id |-> id, sender_id |-> sender, stream_id |-> stream,
     content |-> "c0", rendered_content |-> "r0", topic |-> "t0", flags |-> {},
     whisper_recipients |-> recipients]

RawMessages(ids, recipients) ==
    {RawMessage(r[1], r[2], r[3], r[4]) :
        r \in ids \X Users \X StreamIds \X recipients}

\* Variant: a whisper is a message with at least one recipient.
IsWhisperIfAddressed(whisperRecipients) ==
    /\ whisperRecipients.kind = "object"
    /\ \/ whisperRecipients.user_ids # {}
       \/ whisperRecipients.group_ids # {}
       \/ whisperRecipients.puppet_ids # {}
       \/ whisperRecipients.persona_ids # {}

\* Variant: only an absent key makes an ordinary message.
IsWhisperUnlessUndefined(whisperRecipients) ==
    whisperRecipients # Undefined

\* const isWhisper = whisperRecipients !== null && whisperRecipients !== undefined
IsWhisper(whisperRecipients) ==
    whisperRecipients # Null /\ whisperRecipients # Undefined

\* toTheaterMessage(raw): the fields the stores and the resolver read.
toTheaterMessage(raw) ==
    [id |-> raw.id,
     sender_id |-> raw.sender_id,
     stream_id |-> raw.stream_id,
     content |-> raw.content,
     rendered_content |-> IF raw.rendered_content = NoValue
                          THEN raw.content ELSE raw.rendered_content,
     topic |-> raw.topic,
     isRead |-> "read" \in raw.flags,
     whisper_recipients |-> IF raw.whisper_recipients = Undefined
                            THEN Null ELSE raw.whisper_recipients,
     isWhisper |-> IsWhisper(raw.whisper_recipients)]

\* ---------------------------------------------------- Recipient Directory
\* Each lookup answers found = FALSE for an id the directory does not know.
resolveGroupMembers(group_id) ==
    IF group_id \in DOMAIN groupMembers
    THEN [found |-> TRUE, members |-> groupMembers[group_id]]
    ELSE [found |-> FALSE, members |-> {}]

resolvePersonaOwner(persona_id) ==
    IF persona_id \in DOMAIN personaOwner
    THEN [found |-> TRUE, user_id |-> personaOwner[persona_id]]
    ELSE [found |-> FALSE, user_id |-> 0]

\* Puppets are scoped to a channel: puppet 1 exists in channel 1 and is
\* handled by bot 2; puppet 2 exists in channel 2 and is handled by bot 1.
resolvePuppetHandler(channel_id, puppet_id) ==
    IF channel_id = 1 /\ puppet_id = 1 THEN [found |-> TRUE, bot_id |-> 2]
    ELSE IF channel_id = 2 /\ puppet_id = 2 THEN [found |-> TRUE, bot_id |-> 1]
    ELSE [found |-> FALSE, bot_id |-> 0]

\* -------------------------------------------------------- Whisper Resolver
\* Variant: no sender exception (step 2 left out).
isVisibleToRecipientsOnly(message, viewer_user_id) ==
    LET w == message.whisper_recipients
    IN IF w = Null THEN TRUE
       ELSE \/ viewer_user_id \in w.user_ids
            \/ \E g \in w.group_ids :
                  viewer_user_id \in resolveGroupMembers(g).members
            \/ \E p \in w.puppet_ids :
                  LET h == resolvePuppetHandler(message.stream_id, p)
                  IN h.found /\ viewer_user_id = h.bot_id
            \/ \E q \in w.persona_ids :
                  LET o == resolvePersonaOwner(q)
                  IN o.found /\ viewer_user_id = o.user_id

\* Variant: puppet and persona recipients are not resolved (steps 5, 6 left out).
isVisibleToUsersAndGroups(message, viewer_user_id) ==
    LET w == message.whisper_recipients
    IN IF w = Null THEN TRUE
       ELSE \/ viewer_user_id = message.sender_id
            \/ viewer_user_id \in w.user_ids
            \/ \E g \in w.group_ids :
                  viewer_user_id \in resolveGroupMembers(g).members

\* Variant: a recipient id the directory does not know grants visibility.
isVisibleFailOpen(message, viewer_user_id) ==
    LET w == message.whisper_recipients
    IN IF w = Null THEN TRUE
       ELSE \/ viewer_user_id = message.sender_id
            \/ viewer_user_id \in w.user_ids
            \/ \E g \in w.group_ids :
                  LET m == resolveGroupMembers(g)
                  IN ~m.found \/ viewer_user_id \in m.members
            \/ \E p \in w.puppet_ids :
                  LET h == resolvePuppetHandler(message.stream_id, p)
                  IN ~h.found \/ viewer_user_id = h.bot_id
            \/ \E q \in w.persona_ids :
                  LET o == resolvePersonaOwner(q)
                  IN ~o.found \/ viewer_user_id = o.user_id

\* isVisible(message, viewer_user_id): steps 1 to 7 of the resolver.
isVisible(message, viewer_user_id) ==
    LET w == message.whisper_recipients
    IN IF w = Null THEN TRUE
       ELSE \/ viewer_user_id = message.sender_id
            \/ viewer_user_id \in w.user_ids
            \/ \E g \in w.group_ids :
                  LET m == resolveGroupMembers(g)
                  IN m.found /\ viewer_user_id \in m.members
            \/ \E p \in w.puppet_ids :
                  LET h == resolvePuppetHandler(message.stream_id, p)
                  IN h.found /\ viewer_user_id = h.bot_id
            \/ \E q \in w.persona_ids :
                  LET o == resolvePersonaOwner(q)
                  IN o.found /\ viewer_user_id = o.user_id

\* The results of the last two calls, the newest last.
Remember(results, result) ==
    IF Len(results) < 2 THEN Append(results, result)
    ELSE <<results[2], result>>

\* ------------------------------------------------------------ message store
\* newMessages.sort((a, b) => a.id - b.id): a stable sort by id.
RECURSIVE SortById(_)
SortById(list) ==
    IF list = <<>> THEN <<>>
    ELSE LET last == list[Len(list)]
             front == SortById(SubSeq(list, 1, Len(list) - 1))
             k == Cardinality({i \in 1..Len(front) : front[i].id <= last.id})
         IN SubSeq(front, 1, k) \o <<last>> \o SubSeq(front, k + 1, Len(front))

\* messages.addMessage(msg): append, then sort by id.
addMessage(list, msg) ==
    SortById(Append(list, msg))

\* {...m, ...updates}
Patch(m, updates) ==
    [f \in DOMAIN m \cup DOMAIN updates |->
        IF f \in DOMAIN updates THEN updates[f] ELSE m[f]]

\* Variant: the patch is applied to every stored message.
updateEveryMessage(list, id, updates) ==
    [i \in 1..Len(list) |-> Patch(list[i], updates)]

\* messages.updateMessage(id, updates)
updateMessage(list, id, updates) ==
    [i \in 1..Len(list) |->
        IF list[i].id = id THEN Patch(list[i], updates) ELSE list[i]]

\* Variant: the messages up to the given id are removed.
removeMessagesUpTo(list, id) ==
    SelectSeq(list, LAMBDA m : m.id > id)

\* messages.removeMessage(id)
removeMessage(list, id) ==
    SelectSeq(list, LAMBDA m : m.id # id)

\* messages.markAsRead(id)
markAsRead(list, id) ==
    [i \in 1..Len(list) |->
        IF list[i].id = id THEN [list[i] EXCEPT !.isRead = TRUE] ELSE list[i]]

\* messages.setMessages(msgs)
setMessages(list, msgs) ==
    msgs

\* combined.filter(...): the first entry of every id is kept.
Deduplicate(list) ==
    SelectSeq([i \in 1..Len(list) |-> [at |-> i, m |-> list[i]]],
              LAMBDA e : \A j \in 1..(e.at - 1) : list[j].id # e.m.id)

\* messages.prependMessages(msgs)
prependMessages(list, msgs) ==
    LET kept == Deduplicate(SortById(msgs \o list))
    IN [i \in 1..Len(kept) |-> kept[i].m]

\* A sequence of store calls made in a row by one handler: the store after
\* the last call and the value the subscribers were called with by each.
RECURSIVE RemoveEach(_, _, _)
RemoveEach(list, ids, seen) ==
    IF ids = <<>> THEN [list |-> list, notified |-> seen]
    ELSE LET next == removeMessage(list, Head(ids))
         IN RemoveEach(next, Tail(ids), Append(seen, next))

RECURSIVE MarkEach(_, _, _)
MarkEach(list, ids, seen) ==
    IF ids = <<>> THEN [list |-> list, notified |-> seen]
    ELSE LET next == markAsRead(list, Head(ids))
         IN MarkEach(next, Tail(ids), Append(seen, next))

\* The ids of a set as an ascending list.
RECURSIVE Ascending(_)
Ascending(ids) ==
    IF ids = {} THEN <<>>
    ELSE LET top == CHOOSE i \in ids : \A j \in ids : j <= i
         IN Append(Ascending(ids \ {top}), top)

\* ------------------------------------------------ events and API results
\* The messages of the scene on show, as the server sends them.
SceneMessage(id) == RawMessage(id, 2, 1, Null)

\* update_message events: each of the three fields is carried or not.
UpdateFields == {"content", "rendered_content", "topic"}

UpdateEvents ==
    [type : {"update_message"}, message_id : MessageIds,
     content : {NoValue, "c1"}, rendered_content : {NoValue, "r1"},
     topic : {NoValue, "t1"}]

\* delete_message events: a list of one or two different message ids.
DeleteEvents ==
    [type : {"delete_message"},
     message_ids : {ids \in [1..1 -> MessageIds] \cup [1..2 -> MessageIds] :
                       \A i, j \in 1..Len(ids) : i # j => ids[i] # ids[j]}]

\* result.messages of api.fetchMessages: ascending, one message per id.
FetchResults ==
    {[i \in 1..Cardinality(ids) |-> SceneMessage(Ascending(ids)[i])] :
        ids \in {x \in SUBSET MessageIds : Cardinality(x) <= MaxMessages}}

\* The payloads of the message events: an ordinary message, a whisper to
\* the local viewer, a whisper to nobody.
EventWhisperRecipients ==
    {Null, Recipients({LocalViewer}, {}, {}, {}), NoRecipients}

\* ------------------------------------------------------------------- Init
\* The values the variables of a component hold while it is not exercised.
ClientIdle ==
    /\ eventQueueId = NoQueue
    /\ lastEventId = 0 - 1
    /\ isPolling = FALSE
    /\ abortController = NoController
    /\ polls = {}
    /\ timers = 0
    /\ reloadRequested = FALSE
    /\ expired = {}
    /\ deleted = {}
    /\ nextQueue = 1
    /\ dispatched = <<>>
    /\ lastBatchMax = 0 - 1
    /\ lastRequest = NoRequest
    /\ lastStep = "none"
    /\ deleting = {}

ResolverIdle ==
    /\ whisper = toTheaterMessage(RawMessage(1, 1, 1, Null))
    /\ groupMembers = <<>>
    /\ personaOwner = <<>>
    /\ isVisibleResults = <<>>

\* No event handled and no store call made yet.
NoEvent == [type |-> "none"]

StoreIdle ==
    /\ messages = <<>>
    /\ lastEvent = NoEvent
    /\ notified = <<>>

TypingIdle ==
    /\ typists = <<>>
    /\ timeouts = <<>>
    /\ typingTimers = {}
    /\ typingStep = [op |-> "none"]
    /\ sinceStart = <<>>

PresenceIdle ==
    /\ presence = <<>>
    /\ presenceEvent = <<>>

DispatchIdle == pendingEvents = <<>>

\* No display message built yet.
NotDisplayed == [built |-> FALSE]

CharacterIdle ==
    /\ rawPayload = [sender_id |-> 1, sender_full_name |-> "Sender",
                     avatar_url |-> "null",
                     persona_display_name |-> "undefined",
                     persona_avatar_url |-> "undefined",
                     persona_color |-> "undefined",
                     puppet_display_name |-> "undefined",
                     puppet_avatar_url |-> "undefined"]
    /\ displayed = NotDisplayed

\* current_stream_id = undefined
NoStream == 0

\* The four id lists of compose_state.set_whisper_recipients.
ComposeRecipients(users, groups, puppets, personas) ==
    [user_ids |-> users, group_ids |-> groups, puppet_ids |-> puppets,
     persona_ids |-> personas]

ComposeIdle ==
    /\ pills = {}
    /\ composeState = ComposeRecipients({}, {}, {}, {})
    /\ current_stream_id = NoStream

\* JSON null in a string-valued field; NoValue is a key that is absent.
NullValue == "null"

\* streamId = null; stream ids on the wire are not negative
NullStreamId == -1

\* topic = null.  A topic is a sequence of one-character strings; null is
\* the sequence of the one string "null", which is no character.
NullTopic == <<NullValue>>

Scene(streamId, topic) == [currentStreamId |-> streamId, currentTopic |-> topic]

NavIdle ==
    /\ navigation = Scene(NullStreamId, NullTopic)
    /\ locationHash = <<>>
    /\ handlingPopstate = FALSE
    /\ navStep = [op |-> "none"]

\* No scene is on show: the Stage component is not mounted.
NoScene == 0

StageIdle ==
    /\ stageScene = NoScene
    /\ loads = {}
    /\ serverMessages = <<>>
    /\ stageEvents = <<>>

UiIdle == DispatchIdle /\ CharacterIdle /\ ComposeIdle /\ NavIdle /\ StageIdle

Init ==
    /\ eventQueueId = NoQueue
    /\ lastEventId = 0 - 1
    /\ isPolling = FALSE
    /\ abortController = NoController
    /\ polls = {}
    /\ timers = 0
    /\ reloadRequested = FALSE
    /\ expired = {}
    /\ deleted = {}
    /\ nextQueue = 1
    /\ dispatched = <<>>
    /\ lastBatchMax = 0 - 1
    /\ lastRequest = NoRequest
    /\ lastStep = "none"
    /\ deleting = {}
    /\ ResolverIdle
    /\ StoreIdle
    /\ TypingIdle
    /\ PresenceIdle
    /\ UiIdle

\* initializeEventHandler(queueId, initialEventId) followed by startPolling()
initializeEventHandler(initialEventId) ==
    /\ nextQueue <= MaxQueues
    /\ eventQueueId' = nextQueue
    /\ lastEventId' = initialEventId
    /\ nextQueue' = nextQueue + 1
    /\ IF isPolling
       THEN /\ lastRequest' = NoRequest
            /\ UNCHANGED <<isPolling, polls, abortController>>
       ELSE LET p == Poll(polls, abortController, TRUE, nextQueue, initialEventId)
            IN /\ isPolling' = TRUE
               /\ polls' = p.polls
               /\ abortController' = p.ctrl
               /\ lastRequest' = p.req
    /\ lastBatchMax' = 0 - 1
    /\ lastStep' = "init"
    /\ UNCHANGED <<timers, reloadRequested, expired, deleted, dispatched>>
    /\ UNCHANGED <<deleting, reconcilerVars>>

\* cleanupEventHandler()
cleanupEventHandler ==
    /\ isPolling' = FALSE
    /\ polls' = {IF r.id = abortController THEN [r EXCEPT !.aborted = TRUE] ELSE r
                 : r \in polls}
    /\ abortController' = NoController
    /\ deleted' = IF eventQueueId # NoQueue THEN deleted \cup {eventQueueId}
                                             ELSE deleted
    /\ deleting' = IF eventQueueId # NoQueue THEN deleting \cup {eventQueueId}
                                              ELSE deleting
    /\ lastStep' = "cleanup"
    /\ lastBatchMax' = 0 - 1
    /\ lastRequest' = NoRequest
    /\ UNCHANGED <<eventQueueId, lastEventId, timers, reloadRequested, expired,
                   nextQueue, dispatched>>
    /\ UNCHANGED reconcilerVars

\* fetch() resolves with an OK response; poll() goes on to await json().
FetchOk(r) ==
    /\ r \in polls /\ r.pc = "fetch" /\ ~r.aborted
    /\ polls' = (polls \ {r}) \cup {[r EXCEPT !.pc = "json"]}
    /\ lastStep' = "fetchOk"
    /\ lastBatchMax' = 0 - 1
    /\ lastRequest' = NoRequest
    /\ UNCHANGED <<eventQueueId, lastEventId, isPolling, abortController, timers,
                   reloadRequested, expired, deleted, nextQueue, dispatched>>
    /\ UNCHANGED <<deleting, reconcilerVars>>

\* fetch() resolves with status 400: reload the page and return.
FetchQueueExpired(r) ==
    /\ r \in polls /\ r.pc = "fetch" /\ ~r.aborted
    /\ polls' = polls \ {r}
    /\ reloadRequested' = TRUE
    /\ expired' = expired \cup {r.queue}
    /\ lastStep' = "fatal"
    /\ lastBatchMax' = 0 - 1
    /\ lastRequest' = NoRequest
    /\ UNCHANGED <<eventQueueId, lastEventId, isPolling, abortController, timers,
                   deleted, nextQueue, dispatched>>
    /\ UNCHANGED <<deleting, reconcilerVars>>

\* Variant: the catch block also forgets the last event id.
PollFailResetting(r) ==
    /\ r \in polls /\ ~r.aborted
    /\ polls' = polls \ {r}
    /\ timers' = IF isPolling THEN timers + 1 ELSE timers
    /\ lastEventId' = 0 - 1
    /\ lastStep' = "fail"
    /\ lastBatchMax' = 0 - 1
    /\ lastRequest' = NoRequest
    /\ UNCHANGED <<eventQueueId, isPolling, abortController,
                   reloadRequested, expired, deleted, nextQueue, dispatched>>
    /\ UNCHANGED <<deleting, reconcilerVars>>

\* Variant: the catch block logs the error and schedules no retry.
PollFailNoRetry(r) ==
    /\ r \in polls /\ ~r.aborted
    /\ polls' = polls \ {r}
    /\ lastStep' = "fail"
    /\ lastBatchMax' = 0 - 1
    /\ lastRequest' = NoRequest
    /\ UNCHANGED <<eventQueueId, lastEventId, isPolling, abortController, timers,
                   reloadRequested, expired, deleted, nextQueue, dispatched>>
    /\ UNCHANGED <<deleting, reconcilerVars>>

\* A recoverable failure: fetch() rejects (network error, timeout), the
\* status is not OK and not 400, or the body cannot be read or parsed.
\* The catch block logs and, if still polling, schedules poll in 5 s.
PollFail(r) ==
    /\ r \in polls /\ ~r.aborted
    /\ polls' = polls \ {r}
    /\ timers' = IF isPolling THEN timers + 1 ELSE timers
    /\ lastStep' = "fail"
    /\ lastBatchMax' = 0 - 1
    /\ lastRequest' = NoRequest
    /\ UNCHANGED <<eventQueueId, lastEventId, isPolling, abortController,
                   reloadRequested, expired, deleted, nextQueue, dispatched>>
    /\ UNCHANGED <<deleting, reconcilerVars>>

\* The aborted request rejects with AbortError: the catch block returns.
PollAborted(r) ==
    /\ r \in polls /\ r.aborted
    /\ polls' = polls \ {r}
    /\ lastStep' = "abort"
    /\ lastBatchMax' = 0 - 1
    /\ lastRequest' = NoRequest
    /\ UNCHANGED <<eventQueueId, lastEventId, isPolling, abortController, timers,
                   reloadRequested, expired, deleted, nextQueue, dispatched>>
    /\ UNCHANGED <<deleting, reconcilerVars>>

\* response.json() resolves with the batch `body`: the events are processed
\* in a row, then either poll() is called again at once or, when a handler
\* threw, the catch block schedules the retry.
Deliver(r, body) ==
    /\ r \in polls /\ r.pc = "json" /\ ~r.aborted
    /\ Len(dispatched) + Len(body) <= MaxDispatched
    /\ lastBatchMax' = MaxIdOf(body)
    /\ LET res == ProcessEvents(body, lastEventId, dispatched)
           rest == polls \ {r}
       IN /\ lastEventId' = res.last
          /\ dispatched' = res.log
          /\ IF res.threw
             THEN /\ polls' = rest
                  /\ timers' = IF isPolling THEN timers + 1 ELSE timers
                  /\ lastStep' = "throw"
                  /\ lastRequest' = NoRequest
                  /\ UNCHANGED abortController
             ELSE LET p == Poll(rest, abortController, isPolling, eventQueueId,
                                res.last)
                  IN /\ polls' = p.polls
                     /\ abortController' = p.ctrl
                     /\ lastRequest' = p.req
                     /\ lastStep' = IF p.sent THEN "deliver" ELSE "deliverLast"
                     /\ UNCHANGED timers
    /\ UNCHANGED <<eventQueueId, isPolling, reloadRequested, expired, deleted,
                   nextQueue>>
    /\ UNCHANGED <<deleting, reconcilerVars>>

\* A backoff timer fires and runs poll().
TimerFire ==
    /\ timers > 0
    /\ timers' = timers - 1
    /\ LET p == Poll(polls, abortController, isPolling, eventQueueId, lastEventId)
       IN /\ polls' = p.polls
          /\ abortController' = p.ctrl
          /\ lastRequest' = p.req
          /\ lastStep' = IF p.sent THEN "timerPoll" ELSE "timerNoop"
    /\ lastBatchMax' = 0 - 1
    /\ UNCHANGED <<eventQueueId, lastEventId, isPolling, reloadRequested, expired,
                   deleted, nextQueue, dispatched>>
    /\ UNCHANGED <<deleting, reconcilerVars>>

\* The reload requested by window.location.reload() takes place: the page
\* and with it every variable, timer and request of the module is gone.
PageUnload ==
    /\ reloadRequested
    /\ eventQueueId' = NoQueue
    /\ lastEventId' = 0 - 1
    /\ isPolling' = FALSE
    /\ abortController' = NoController
    /\ polls' = {}
    /\ timers' = 0
    /\ reloadRequested' = FALSE
    /\ expired' = {}
    /\ deleted' = {}
    /\ nextQueue' = 1
    /\ dispatched' = <<>>
    /\ lastBatchMax' = 0 - 1
    /\ lastRequest' = NoRequest
    /\ lastStep' = "unload"
    /\ deleting' = {}
    /\ UNCHANGED reconcilerVars

Next ==
    \/ \E e \in InitialEventIds : initializeEventHandler(e)
    \/ cleanupEventHandler
    \/ \E r \in polls : FetchOk(r)
    \/ \E r \in polls : FetchQueueExpired(r)
    \/ \E r \in polls : PollFail(r)
    \/ \E r \in polls : PollAborted(r)
    \/ \E r \in polls : \E body \in Batches : Deliver(r, body)
    \/ TimerFire
    \/ PageUnload

Spec == Init /\ [][Next]_vars

\* The timer queue of the event loop runs every due callback.
LiveSpec == Init /\ [][Next]_vars /\ WF_vars(TimerFire)

\* ------------------------------------------ the DELETE sent by the teardown
\* Variant: the failed DELETE is sent again.
DeleteFailedAndRetried(q) ==
    /\ q \in deleting
    /\ deleting' = deleting
    /\ lastStep' = "deleteFailed"
    /\ lastBatchMax' = 0 - 1
    /\ lastRequest' = NoRequest
    /\ timers' = timers + 1
    /\ UNCHANGED <<eventQueueId, lastEventId, isPolling, abortController, polls,
                   reloadRequested, expired, deleted, nextQueue, dispatched>>
    /\ UNCHANGED reconcilerVars

\* The DELETE of cleanupEventHandler rejects or is answered with an error:
\* .catch(() => {}) takes the rejection, an error status is never read.
DeleteFailed(q) ==
    /\ q \in deleting
    /\ deleting' = deleting \ {q}
    /\ lastStep' = "deleteFailed"
    /\ lastBatchMax' = 0 - 1
    /\ lastRequest' = NoRequest
    /\ UNCHANGED <<eventQueueId, lastEventId, isPolling, abortController, polls,
                   timers, reloadRequested, expired, deleted, nextQueue, dispatched>>
    /\ UNCHANGED reconcilerVars

\* The DELETE is answered with success; the response is never read.
DeleteSucceeded(q) ==
    /\ q \in deleting
    /\ deleting' = deleting \ {q}
    /\ lastStep' = "deleteOk"
    /\ lastBatchMax' = 0 - 1
    /\ lastRequest' = NoRequest
    /\ UNCHANGED <<eventQueueId, lastEventId, isPolling, abortController, polls,
                   timers, reloadRequested, expired, deleted, nextQueue, dispatched>>
    /\ UNCHANGED reconcilerVars

\* Sessions that are set up and torn down while no poll is answered, together
\* with the outcome of their DELETE requests.
TeardownNext ==
    \/ \E e \in InitialEventIds : initializeEventHandler(e)
    \/ cleanupEventHandler
    \/ \E r \in polls : PollFail(r)
    \/ \E r \in polls : PollAborted(r)
    \/ TimerFire
    \/ \E q \in deleting : DeleteFailed(q)
    \/ \E q \in deleting : DeleteSucceeded(q)

TeardownSpec == Init /\ [][TeardownNext]_vars

\* ------------------------------------- Whisper Resolver and its directory
\* One display message, built by toTheaterMessage from any raw payload, is
\* resolved for the local viewer while directory events arrive.
ResolverInit ==
    /\ ClientIdle
    /\ StoreIdle
    /\ TypingIdle
    /\ PresenceIdle
    /\ UiIdle
    /\ whisper \in {toTheaterMessage(raw) :
                      raw \in RawMessages({1}, RawWhisperRecipients)}
    /\ groupMembers = <<>>
    /\ personaOwner = <<>>
    /\ isVisibleResults = <<>>

\* Directory events: group lifecycle and membership, persona lifecycle.
GroupCreated(g) ==
    /\ g \notin DOMAIN groupMembers
    /\ groupMembers' = [h \in DOMAIN groupMembers \cup {g} |->
                           IF h = g THEN {} ELSE groupMembers[h]]
    /\ UNCHANGED <<whisper, personaOwner, isVisibleResults, clientVars, storeVars, typingVars, presenceVars, uiVars>>

GroupDeleted(g) ==
    /\ g \in DOMAIN groupMembers
    /\ groupMembers' = [h \in DOMAIN groupMembers \ {g} |-> groupMembers[h]]
    /\ UNCHANGED <<whisper, personaOwner, isVisibleResults, clientVars, storeVars, typingVars, presenceVars, uiVars>>

GroupMemberAdded(g, u) ==
    /\ g \in DOMAIN groupMembers
    /\ u \notin groupMembers[g]
    /\ groupMembers' = [groupMembers EXCEPT ![g] = @ \cup {u}]
    /\ UNCHANGED <<whisper, personaOwner, isVisibleResults, clientVars, storeVars, typingVars, presenceVars, uiVars>>

GroupMemberRemoved(g, u) ==
    /\ g \in DOMAIN groupMembers
    /\ u \in groupMembers[g]
    /\ groupMembers' = [groupMembers EXCEPT ![g] = @ \ {u}]
    /\ UNCHANGED <<whisper, personaOwner, isVisibleResults, clientVars, storeVars, typingVars, presenceVars, uiVars>>

PersonaCreated(q, u) ==
    /\ q \notin DOMAIN personaOwner
    /\ personaOwner' = [r \in DOMAIN personaOwner \cup {q} |->
                           IF r = q THEN u ELSE personaOwner[r]]
    /\ UNCHANGED <<whisper, groupMembers, isVisibleResults, clientVars, storeVars, typingVars, presenceVars, uiVars>>

PersonaDeleted(q) ==
    /\ q \in DOMAIN personaOwner
    /\ personaOwner' = [r \in DOMAIN personaOwner \ {q} |-> personaOwner[r]]
    /\ UNCHANGED <<whisper, groupMembers, isVisibleResults, clientVars, storeVars, typingVars, presenceVars, uiVars>>

\* Variant: the decision of the previous call is kept and returned again.
isVisibleCallCached ==
    /\ isVisibleResults' =
          Remember(isVisibleResults,
                   IF isVisibleResults # <<>>
                   THEN isVisibleResults[Len(isVisibleResults)]
                   ELSE isVisible(whisper, LocalViewer))
    /\ UNCHANGED <<whisper, groupMembers, personaOwner, clientVars, storeVars, typingVars, presenceVars, uiVars>>

\* isVisible(whisper, LocalViewer) is called and its result kept.
isVisibleCall ==
    /\ isVisibleResults' =
          Remember(isVisibleResults, isVisible(whisper, LocalViewer))
    /\ UNCHANGED <<whisper, groupMembers, personaOwner, clientVars, storeVars, typingVars, presenceVars, uiVars>>

ResolverNext ==
    \/ \E g \in GroupIds : GroupCreated(g)
    \/ \E g \in GroupIds : GroupDeleted(g)
    \/ \E g \in GroupIds : \E u \in Users : GroupMemberAdded(g, u)
    \/ \E g \in GroupIds : \E u \in Users : GroupMemberRemoved(g, u)
    \/ \E q \in PersonaIds : \E u \in Users : PersonaCreated(q, u)
    \/ \E q \in PersonaIds : PersonaDeleted(q)
    \/ isVisibleCall

ResolverSpec == ResolverInit /\ [][ResolverNext]_vars

\* ---------------------------------------------- message events and store
StoreInit ==
    /\ ClientIdle
    /\ ResolverIdle
    /\ TypingIdle
    /\ PresenceIdle
    /\ UiIdle
    /\ StoreIdle

\* handleMessageEvent(event): toTheaterMessage(event.message), addMessage.
handleMessageEvent(msg) ==
    /\ Len(messages) < MaxMessages
    /\ messages' = addMessage(messages, toTheaterMessage(msg))
    /\ lastEvent' = [type |-> "message", message |-> msg]
    /\ notified' = <<messages'>>
    /\ UNCHANGED <<clientVars, resolverVars, typingVars, presenceVars, uiVars>>

StoreNext ==
    \E msg \in RawMessages(MessageIds, EventWhisperRecipients) :
        handleMessageEvent(msg)

StoreSpec == StoreInit /\ [][StoreNext]_vars

\* ---------------------------------- the message store of the scene on show
\* Message, update and delete events of one scene, and the calls Stage.svelte
\* makes on the store.
MessageInit ==
    /\ ClientIdle
    /\ ResolverIdle
    /\ TypingIdle
    /\ PresenceIdle
    /\ UiIdle
    /\ StoreIdle

\* const updates = {}; one key for each of the three fields the event carries
Updates(event) ==
    [f \in {g \in UpdateFields : event[g] # NoValue} |-> event[f]]

\* handleUpdateMessageEvent(event)
handleUpdateMessageEvent(event) ==
    /\ LET updates == Updates(event)
       IN IF DOMAIN updates # {}
          THEN /\ messages' = updateMessage(messages, event.message_id, updates)
               /\ notified' = <<messages'>>
          ELSE /\ messages' = messages
               /\ notified' = <<>>
    /\ lastEvent' = event
    /\ UNCHANGED <<clientVars, resolverVars, typingVars, presenceVars, uiVars>>

\* handleDeleteMessageEvent(event)
handleDeleteMessageEvent(event) ==
    /\ LET done == RemoveEach(messages, event.message_ids, <<>>)
       IN /\ messages' = done.list
          /\ notified' = done.notified
    /\ lastEvent' = event
    /\ UNCHANGED <<clientVars, resolverVars, typingVars, presenceVars, uiVars>>

\* Stage.svelte loadMessages(): the response arrives and replaces the store.
loadMessages(result) ==
    /\ messages' = setMessages(messages,
                               [i \in 1..Len(result) |-> toTheaterMessage(result[i])])
    /\ notified' = <<messages'>>
    /\ lastEvent' = [type |-> "loadMessages"]
    /\ UNCHANGED <<clientVars, resolverVars, typingVars, presenceVars, uiVars>>

\* Stage.svelte loadMoreHistory(): the messages before the oldest one shown
\* arrive and are put in front.
loadMoreHistory(result) ==
    /\ messages # <<>>
    /\ result # <<>>
    /\ \A i \in 1..Len(result) : result[i].id < messages[1].id
    /\ Len(result) + Len(messages) <= MaxMessages
    /\ messages' = prependMessages(messages,
                                   [i \in 1..Len(result) |-> toTheaterMessage(result[i])])
    /\ notified' = <<messages'>>
    /\ lastEvent' = [type |-> "loadMoreHistory"]
    /\ UNCHANGED <<clientVars, resolverVars, typingVars, presenceVars, uiVars>>

\* Stage.svelte readInterval: every unread message shown is marked as read.
readInterval ==
    LET unreadIds == SelectSeq([i \in 1..Len(messages) |-> messages[i].id],
                               LAMBDA id : \E j \in 1..Len(messages) :
                                   messages[j].id = id /\ ~messages[j].isRead)
        done == MarkEach(messages, unreadIds, <<>>)
    IN /\ unreadIds # <<>>
       /\ messages' = done.list
       /\ notified' = done.notified
       /\ lastEvent' = [type |-> "readInterval"]
       /\ UNCHANGED <<clientVars, resolverVars, typingVars, presenceVars, uiVars>>

MessageNext ==
    \/ \E id \in MessageIds : handleMessageEvent(SceneMessage(id))
    \/ \E event \in UpdateEvents : handleUpdateMessageEvent(event)
    \/ \E event \in DeleteEvents : handleDeleteMessageEvent(event)
    \/ \E result \in FetchResults : loadMessages(result)
    \/ \E result \in FetchResults : loadMoreHistory(result)
    \/ readInterval

MessageSpec == MessageInit /\ [][MessageNext]_vars

\* ------------------------------------------------------- the typing store
\* Time is counted in ticks; the 15000 ms of part_004:36 are TypingWindow
\* ticks.
TypingWindow == 2

\* const key = `${streamId}:${topic}` of the scenes that are typed in
TypingKeys == {<<1, "t0">>, <<1, "t1">>}

\* const timeoutKey = `${key}:${userId}`
timeoutKey(key, userId) == <<key, userId>>

\* The users who type in these scenes.
TypingUsers == {1, 2}

TimeoutKeys == {timeoutKey(key, u) : key \in TypingKeys, u \in TypingUsers}

\* map.set(k, v) and map.delete(k) on a Map
Put(map, k, v) == [j \in DOMAIN map \cup {k} |-> IF j = k THEN v ELSE map[j]]

Drop(map, k) ==
    IF DOMAIN map \subseteq {k} THEN <<>> ELSE [j \in DOMAIN map \ {k} |-> map[j]]

\* A pending setTimeout callback of the store: removeTypist(key, user) in
\* `left` ticks.  The handle setTimeout returns is modelled by the time left,
\* which tells the timers of one timeout key apart.
Timer(key, userId, left) == [key |-> key, user |-> userId, left |-> left]

\* The state the store's functions work on.
TypingState(map, handles, pending) ==
    [typists |-> map, timeouts |-> handles, timers |-> pending]

\* clearTypistTimeout(key, userId)
clearTypistTimeout(T, key, userId) ==
    LET tk == timeoutKey(key, userId)
    IN IF tk \in DOMAIN T.timeouts
       THEN TypingState(T.typists, Drop(T.timeouts, tk),
                        T.timers \ {Timer(key, userId, T.timeouts[tk])})
       ELSE T

\* setTypistTimeout without the clearTypistTimeout it starts with
setTypistTimeoutKeepingOld(T, key, userId) ==
    TypingState(T.typists, Put(T.timeouts, timeoutKey(key, userId), TypingWindow),
                T.timers \cup {Timer(key, userId, TypingWindow)})

\* setTypistTimeout(key, userId)
setTypistTimeout(T, key, userId) ==
    LET C == clearTypistTimeout(T, key, userId)
    IN TypingState(C.typists, Put(C.timeouts, timeoutKey(key, userId), TypingWindow),
                   C.timers \cup {Timer(key, userId, TypingWindow)})

\* addTypist that sets no expiry timer
addTypistWithoutTimeout(T, key, typist) ==
    LET existing == IF key \in DOMAIN T.typists THEN T.typists[key] ELSE <<>>
    IN IF \E i \in 1..Len(existing) : existing[i].user_id = typist.user_id
       THEN T
       ELSE TypingState(Put(T.typists, key, Append(existing, typist)),
                        T.timeouts, T.timers)

\* addTypist(key, typist)
addTypist(T, key, typist) ==
    LET existing == IF key \in DOMAIN T.typists THEN T.typists[key] ELSE <<>>
        added == IF \E i \in 1..Len(existing) : existing[i].user_id = typist.user_id
                 THEN T.typists
                 ELSE Put(T.typists, key, Append(existing, typist))
    IN setTypistTimeout(TypingState(added, T.timeouts, T.timers),
                        key, typist.user_id)

\* Variant: removeTypist leaves the key in the map when its list is empty.
removeTypistKeepingKey(T, key, userId) ==
    LET C == clearTypistTimeout(T, key, userId)
    IN IF key \notin DOMAIN C.typists
       THEN C
       ELSE TypingState(Put(C.typists, key,
                            SelectSeq(C.typists[key],
                                      LAMBDA t : t.user_id # userId)),
                        C.timeouts, C.timers)

\* Variant: removeTypist without the clearTypistTimeout it starts with.
removeTypistKeepingTimer(T, key, userId) ==
    IF key \notin DOMAIN T.typists
    THEN T
    ELSE LET filtered == SelectSeq(T.typists[key],
                                   LAMBDA t : t.user_id # userId)
         IN TypingState(IF filtered = <<>>
                        THEN Drop(T.typists, key)
                        ELSE Put(T.typists, key, filtered),
                        T.timeouts, T.timers)

\* removeTypist(key, userId)
removeTypist(T, key, userId) ==
    LET C == clearTypistTimeout(T, key, userId)
    IN IF key \notin DOMAIN C.typists
       THEN C
       ELSE LET filtered == SelectSeq(C.typists[key],
                                      LAMBDA t : t.user_id # userId)
            IN TypingState(IF filtered = <<>>
                           THEN Drop(C.typists, key)
                           ELSE Put(C.typists, key, filtered),
                           C.timeouts, C.timers)

\* clear()
clearTypists(T) ==
    TypingState(<<>>, <<>>,
                T.timers \ {Timer(tk[1], tk[2], T.timeouts[tk]) : tk \in DOMAIN T.timeouts})

\* The typing events of the scenes: a start or a stop by a sender, an event
\* without a sender, and an event of a direct conversation.
NoSender == Undefined

TypingEvents ==
    [message_type : {"stream"}, stream_id : {1}, topic : {"t0", "t1"},
     op : {"start", "stop"}, sender : {[user_id |-> u] : u \in TypingUsers}]
    \cup [message_type : {"stream"}, stream_id : {1}, topic : {"t0"},
          op : {"start"}, sender : {NoSender}]
    \cup [message_type : {"direct"}, stream_id : {1}, topic : {"t0"},
          op : {"start"}, sender : {[user_id |-> LocalViewer]}]

Typing == TypingState(typists, timeouts, typingTimers)

\* user is listed as typing under key in the store value map
ListedIn(map, key, userId) ==
    /\ key \in DOMAIN map
    /\ \E i \in 1..Len(map[key]) : map[key][i].user_id = userId

Listed(key, userId) == ListedIn(typists, key, userId)

TypingInit ==
    /\ ClientIdle
    /\ ResolverIdle
    /\ StoreIdle
    /\ PresenceIdle
    /\ UiIdle
    /\ TypingIdle

\* handleTypingEvent(event)
handleTypingEvent(event) ==
    /\ IF event.message_type # "stream" \/ event.sender = NoSender
       THEN /\ UNCHANGED <<typists, timeouts, typingTimers, sinceStart>>
            /\ typingStep' = [op |-> "ignored"]
       ELSE LET key == <<event.stream_id, event.topic>>
                typist == [user_id |-> event.sender.user_id,
                           full_name |-> "Someone"]
                T == IF event.op = "start"
                     THEN addTypist(Typing, key, typist)
                     ELSE removeTypist(Typing, key, typist.user_id)
                tk == timeoutKey(key, typist.user_id)
            IN /\ typists' = T.typists
               /\ timeouts' = T.timeouts
               /\ typingTimers' = T.timers
               /\ sinceStart' = IF event.op = "start"
                                THEN Put(sinceStart, tk, 0)
                                ELSE Drop(sinceStart, tk)
               /\ typingStep' = IF event.op = "start"
                                THEN [op |-> "start", key |-> key,
                                      user |-> typist.user_id]
                                ELSE [op |-> "stop", key |-> key,
                                      user |-> typist.user_id,
                                      listed |-> Listed(key, typist.user_id)]
    /\ UNCHANGED <<clientVars, resolverVars, storeVars, presenceVars, uiVars>>

\* One tick of time passes: no callback is due, every pending timer comes
\* one tick closer.
Tick ==
    /\ typingTimers # {}
    /\ \A t \in typingTimers : t.left > 0
    /\ typingTimers' = {Timer(t.key, t.user, t.left - 1) : t \in typingTimers}
    /\ timeouts' = [tk \in DOMAIN timeouts |-> timeouts[tk] - 1]
    /\ sinceStart' = [tk \in DOMAIN sinceStart |->
                         IF sinceStart[tk] < TypingWindow
                         THEN sinceStart[tk] + 1 ELSE sinceStart[tk]]
    /\ typingStep' = [op |-> "tick"]
    /\ UNCHANGED typists
    /\ UNCHANGED <<clientVars, resolverVars, storeVars, presenceVars, uiVars>>

\* The callback of a timer that is due runs: removeTypist(key, userId).
TimerExpires(t) ==
    /\ t \in typingTimers
    /\ t.left = 0
    /\ LET T == removeTypist(TypingState(typists, timeouts, typingTimers \ {t}),
                             t.key, t.user)
       IN /\ typists' = T.typists
          /\ timeouts' = T.timeouts
          /\ typingTimers' = T.timers
    /\ sinceStart' = sinceStart
    /\ typingStep' = [op |-> "expire", key |-> t.key, user |-> t.user]
    /\ UNCHANGED <<clientVars, resolverVars, storeVars, presenceVars, uiVars>>

AnyTimerExpires == \E t \in typingTimers : TimerExpires(t)

\* typing.clear()
clearTyping ==
    /\ typists # <<>>
    /\ LET T == clearTypists(Typing)
       IN /\ typists' = T.typists
          /\ timeouts' = T.timeouts
          /\ typingTimers' = T.timers
    /\ sinceStart' = <<>>
    /\ typingStep' = [op |-> "clear"]
    /\ UNCHANGED <<clientVars, resolverVars, storeVars, presenceVars, uiVars>>

TypingNext ==
    \/ \E event \in TypingEvents : handleTypingEvent(event)
    \/ Tick
    \/ AnyTimerExpires
    \/ clearTyping

TypingSpec == TypingInit /\ [][TypingNext]_vars

\* Time passes, and a callback that is due runs.
TypingLiveSpec ==
    TypingInit /\ [][TypingNext]_vars /\ WF_vars(Tick) /\ WF_vars(AnyTimerExpires)


\* ----------------------------------------------------- the presence store
\* type PresenceStatus
PresenceStatuses == {"active", "idle", "offline"}

\* The cast members the store is filled with.
CastMembers ==
    [user_id : {1, 2}, full_name : {"name"}, avatar_url : {Null},
     status : PresenceStatuses]

\* The keys of the presence object of an event, and what Number.parseInt
\* makes of them; NaN is the id of no user.
PresenceKeys == {"1", "2", "x"}

NaN == 0 - 1

parseInt(str) ==
    CASE str = "1" -> 1
      [] str = "2" -> 2
      [] OTHER -> NaN

\* Object.entries(presenceData): the keys are distinct; an empty status
\* stands for a missing one.
PresenceEntries ==
    LET Entry == [key : PresenceKeys, status : PresenceStatuses \cup {""}]
    IN {<<e>> : e \in Entry}
       \cup {p \in {<<e1, e2>> : e1 \in Entry, e2 \in Entry} : p[1].key # p[2].key}

\* The presence events: with a presence object, and without one.
PresenceEvents ==
    [type : {"presence"}, presence : PresenceEntries] \cup {[type |-> "presence"]}

\* setPresence that enters a user the store does not hold
setPresenceOrCreate(map, userId, status) ==
    Put(map, userId,
        IF userId \in DOMAIN map
        THEN [map[userId] EXCEPT !.status = status]
        ELSE [user_id |-> userId, full_name |-> "name", avatar_url |-> Null,
              status |-> status])

\* setPresence(userId, status)
setPresence(map, userId, status) ==
    IF userId \in DOMAIN map
    THEN Put(map, userId, [map[userId] EXCEPT !.status = status])
    ELSE map

\* addMember(member)
addMember(map, member) == Put(map, member.user_id, member)

\* removeMember(userId)
removeMember(map, userId) == Drop(map, userId)

\* for (const [userIdStr, data] of Object.entries(presenceData))
RECURSIVE SetEach(_, _)
SetEach(map, entries) ==
    IF entries = <<>>
    THEN map
    ELSE SetEach(setPresence(map, parseInt(Head(entries).key),
                             IF Head(entries).status # ""
                             THEN Head(entries).status ELSE "offline"),
                 Tail(entries))

PresenceInit ==
    /\ ClientIdle
    /\ ResolverIdle
    /\ StoreIdle
    /\ TypingIdle
    /\ PresenceIdle
    /\ UiIdle

\* handlePresenceEvent(event)
handlePresenceEvent(event) ==
    /\ presence' = IF "presence" \in DOMAIN event
                   THEN SetEach(presence, event.presence)
                   ELSE presence
    /\ presenceEvent' = event
    /\ UNCHANGED <<clientVars, resolverVars, storeVars, typingVars, uiVars>>

\* presence.addMember(member) when somebody joins the cast
MemberAdded(member) ==
    /\ presence' = addMember(presence, member)
    /\ presenceEvent' = [type |-> "addMember"]
    /\ UNCHANGED <<clientVars, resolverVars, storeVars, typingVars, uiVars>>

\* presence.removeMember(userId) when somebody leaves it
MemberRemoved(userId) ==
    /\ userId \in DOMAIN presence
    /\ presence' = removeMember(presence, userId)
    /\ presenceEvent' = [type |-> "removeMember"]
    /\ UNCHANGED <<clientVars, resolverVars, storeVars, typingVars, uiVars>>

PresenceNext ==
    \/ \E event \in PresenceEvents : handlePresenceEvent(event)
    \/ \E member \in CastMembers : MemberAdded(member)
    \/ \E userId \in {1, 2} : MemberRemoved(userId)

PresenceSpec == PresenceInit /\ [][PresenceNext]_vars

\* ------------------------------------------------------ the event dispatcher
\* The batch of one response is dispatched event by event; what the events
\* still to come are is only known when they are dispatched.
MaxPending == 2

\* Longest topic of a scene, in characters.
MaxTopicLen == 1

\* The types dispatchEvent has a handler for.
HandledTypes ==
    {"message", "update_message", "delete_message", "typing", "presence"}

\* The events of a batch: one of each handled type, a message event whose
\* payload is missing, a reaction and an event of a type the client does not
\* know.
DispatchedEvents ==
    UNION {{[type |-> "message", id |-> i, message |-> SceneMessage(1)],
            [type |-> "message", id |-> i],
            [type |-> "update_message", id |-> i, message_id |-> 1,
             content |-> "c1", rendered_content |-> NoValue, topic |-> NoValue],
            [type |-> "delete_message", id |-> i, message_ids |-> <<1>>],
            [type |-> "typing", id |-> i, message_type |-> "stream",
             stream_id |-> 1, topic |-> "t0", op |-> "start",
             sender |-> [user_id |-> 1]],
            [type |-> "typing", id |-> i, message_type |-> "stream",
             stream_id |-> 1, topic |-> "t0", op |-> "stop",
             sender |-> [user_id |-> 1]],
            [type |-> "presence", id |-> i,
             presence |-> <<[key |-> "1", status |-> "idle"]>>],
            [type |-> "reaction", id |-> i],
            [type |-> "realm_user", id |-> i]} : i \in EventIds}

\* The stores as dispatchEvent finds and leaves them, and whether it threw.
Stores(list, seen, T, cast, threw) ==
    [messages |-> list, notified |-> seen, typing |-> T, presence |-> cast,
     threw |-> threw]

\* handleTypingEvent(event) on the typing store T
typingEventResult(T, event) ==
    IF event.message_type # "stream" \/ event.sender = NoSender
    THEN T
    ELSE LET key == <<event.stream_id, event.topic>>
         IN IF event.op = "start"
            THEN addTypist(T, key, [user_id |-> event.sender.user_id,
                                    full_name |-> "Someone"])
            ELSE removeTypist(T, key, event.sender.user_id)

\* The cases of the switch that call a handler.
dispatchHandled(S, event) ==
    CASE event.type = "message" ->
            IF "message" \in DOMAIN event
            THEN LET list == addMessage(S.messages, toTheaterMessage(event.message))
                 IN [S EXCEPT !.messages = list, !.notified = <<list>>]
            ELSE [S EXCEPT !.threw = TRUE]
      [] event.type = "update_message" ->
            LET updates == Updates(event)
            IN IF DOMAIN updates # {}
               THEN LET list == updateMessage(S.messages, event.message_id, updates)
                    IN [S EXCEPT !.messages = list, !.notified = <<list>>]
               ELSE S
      [] event.type = "delete_message" ->
            LET done == RemoveEach(S.messages, event.message_ids, <<>>)
            IN [S EXCEPT !.messages = done.list, !.notified = done.notified]
      [] event.type = "typing" ->
            [S EXCEPT !.typing = typingEventResult(S.typing, event)]
      [] event.type = "presence" ->
            IF "presence" \in DOMAIN event
            THEN [S EXCEPT !.presence = SetEach(S.presence, event.presence)]
            ELSE S

\* Variant: the default branch of the switch throws.
dispatchEventRejectingOthers(S, event) ==
    IF event.type \in HandledTypes
    THEN dispatchHandled(S, event)
    ELSE [S EXCEPT !.threw = TRUE]

\* dispatchEvent(event): the switch over event.type; case "reaction" and
\* the default branch do nothing.
dispatchEvent(S, event) ==
    IF event.type \in HandledTypes
    THEN dispatchHandled(S, event)
    ELSE S

DispatchInit ==
    /\ ClientIdle
    /\ ResolverIdle
    /\ StoreIdle
    /\ TypingIdle
    /\ PresenceIdle
    /\ UiIdle

\* const data = await response.json(): a batch of n events has arrived.
BatchReceived(n) ==
    /\ pendingEvents = <<>>
    /\ pendingEvents' = [i \in 1..n |-> "event"]
    /\ lastStep' = "batch"
    /\ UNCHANGED <<eventQueueId, lastEventId, isPolling, abortController, polls,
                   timers, reloadRequested, expired, deleted, nextQueue,
                   dispatched, lastBatchMax, lastRequest, deleting>>
    /\ UNCHANGED <<resolverVars, storeVars, typingVars, presenceVars,
                   characterVars, composeVars, navVars, stageVars>>

\* One turn of the for-loop over data.events: advance lastEventId, then
\* dispatchEvent(event); a handler that throws ends the loop.
DispatchNextEvent(event) ==
    /\ pendingEvents # <<>>
    /\ event.type = "message" => Len(messages) < MaxMessages
    /\ lastEventId' = AdvanceLastEventId(lastEventId, event.id)
    /\ LET S == dispatchEvent(Stores(messages, <<>>, Typing, presence, FALSE),
                              event)
       IN /\ messages' = S.messages
          /\ notified' = S.notified
          /\ typists' = S.typing.typists
          /\ timeouts' = S.typing.timeouts
          /\ typingTimers' = S.typing.timers
          /\ presence' = S.presence
          /\ pendingEvents' = IF S.threw THEN <<>> ELSE Tail(pendingEvents)
          /\ lastStep' = IF S.threw THEN "throw" ELSE "dispatch"
    /\ lastEvent' = event
    /\ IF event.type = "typing"
       THEN LET key == <<event.stream_id, event.topic>>
                tk == timeoutKey(key, event.sender.user_id)
            IN /\ typingStep' = IF event.op = "start"
                                THEN [op |-> "start", key |-> key,
                                      user |-> event.sender.user_id]
                                ELSE [op |-> "stop", key |-> key,
                                      user |-> event.sender.user_id,
                                      listed |-> Listed(key, event.sender.user_id)]
               /\ sinceStart' = IF event.op = "start"
                                THEN Put(sinceStart, tk, 0)
                                ELSE Drop(sinceStart, tk)
       ELSE UNCHANGED <<typingStep, sinceStart>>
    /\ presenceEvent' = IF event.type = "presence" THEN event ELSE presenceEvent
    /\ UNCHANGED <<eventQueueId, isPolling, abortController, polls, timers,
                   reloadRequested, expired, deleted, nextQueue, dispatched,
                   lastBatchMax, lastRequest, deleting>>
    /\ UNCHANGED <<resolverVars, characterVars, composeVars, navVars, stageVars>>

\* The cast is loaded into the presence store.
CastLoaded ==
    /\ presence = <<>>
    /\ pendingEvents = <<>>
    /\ MemberAdded([user_id |-> 1, full_name |-> "name", avatar_url |-> Null,
                    status |-> "active"])

DispatchSpecNext ==
    \/ \E n \in 1..MaxPending : BatchReceived(n)
    \/ \E event \in DispatchedEvents : DispatchNextEvent(event)
    \/ CastLoaded

DispatchSpec == DispatchInit /\ [][DispatchSpecNext]_vars

\* ------------------------------------------- the calls of the message store
\* messages.addMessages(msgs)
addMessages(list, msgs) ==
    LET kept == Deduplicate(SortById(list \o msgs))
    IN [i \in 1..Len(kept) |-> kept[i].m]

\* The lists a caller can hand to the store: any messages in any order.
MessageLists ==
    UNION {[1..n -> {toTheaterMessage(SceneMessage(id)) : id \in MessageIds}] :
              n \in 0..MaxMessages}

StoreApiInit ==
    /\ ClientIdle
    /\ ResolverIdle
    /\ StoreIdle
    /\ TypingIdle
    /\ PresenceIdle
    /\ UiIdle

\* One call of a function of the message store: the store becomes `list`.
StoreCall(name, list) ==
    /\ Len(list) <= MaxMessages
    /\ messages' = list
    /\ notified' = <<list>>
    /\ lastEvent' = [type |-> name]
    /\ UNCHANGED <<clientVars, resolverVars, typingVars, presenceVars, uiVars>>

SetMessagesCalled(msgs) == StoreCall("setMessages", setMessages(messages, msgs))

AddMessageCalled(msg) == StoreCall("addMessage", addMessage(messages, msg))

AddMessagesCalled(msgs) == StoreCall("addMessages", addMessages(messages, msgs))

PrependMessagesCalled(msgs) ==
    StoreCall("prependMessages", prependMessages(messages, msgs))

UpdateMessageCalled(id, updates) ==
    StoreCall("updateMessage", updateMessage(messages, id, updates))

RemoveMessageCalled(id) == StoreCall("removeMessage", removeMessage(messages, id))

MarkAsReadCalled(id) == StoreCall("markAsRead", markAsRead(messages, id))

StoreApiNext ==
    \/ \E msgs \in MessageLists : SetMessagesCalled(msgs)
    \/ \E id \in MessageIds : AddMessageCalled(toTheaterMessage(SceneMessage(id)))
    \/ \E msgs \in MessageLists : AddMessagesCalled(msgs)
    \/ \E msgs \in MessageLists : PrependMessagesCalled(msgs)
    \/ \E id \in MessageIds : UpdateMessageCalled(id, [content |-> "c1"])
    \/ \E id \in MessageIds : RemoveMessageCalled(id)
    \/ \E id \in MessageIds : MarkAsReadCalled(id)

StoreApiSpec == StoreApiInit /\ [][StoreApiNext]_vars


\* ------------------------------------------- the character of a message
\* a ?? b
Coalesce(a, b) == IF a \in {NoValue, NullValue} THEN b ELSE a

\* The raw payloads: every override present, null or absent.
RawPayloads ==
    [sender_id : Users, sender_full_name : {"Sender"},
     avatar_url : {NullValue, "sender.png"},
     persona_display_name : {NoValue, NullValue, "Persona"},
     persona_avatar_url : {NoValue, NullValue, "persona.png"},
     persona_color : {NoValue, "#c0ffee"},
     puppet_display_name : {NoValue, NullValue, "Puppet"},
     puppet_avatar_url : {NoValue, NullValue, "puppet.png"}]

\* Variant: the puppet override is preferred to the persona override.
toTheaterCharacterPuppetFirst(raw) ==
    [built |-> TRUE,
     sender_id |-> raw.sender_id,
     sender_full_name |-> raw.sender_full_name,
     avatar_url |-> raw.avatar_url,
     characterName |-> Coalesce(raw.puppet_display_name,
                                Coalesce(raw.persona_display_name,
                                         raw.sender_full_name)),
     characterAvatar |-> Coalesce(raw.puppet_avatar_url,
                                  Coalesce(raw.persona_avatar_url,
                                           raw.avatar_url)),
     characterColor |-> Coalesce(raw.persona_color, NullValue)]

\* toTheaterMessage(raw): the sender and the computed character fields.
toTheaterCharacter(raw) ==
    [built |-> TRUE,
     sender_id |-> raw.sender_id,
     sender_full_name |-> raw.sender_full_name,
     avatar_url |-> raw.avatar_url,
     characterName |-> Coalesce(raw.persona_display_name,
                                Coalesce(raw.puppet_display_name,
                                         raw.sender_full_name)),
     characterAvatar |-> Coalesce(raw.persona_avatar_url,
                                  Coalesce(raw.puppet_avatar_url,
                                           raw.avatar_url)),
     characterColor |-> Coalesce(raw.persona_color, NullValue)]

CharacterInit ==
    /\ ClientIdle
    /\ ResolverIdle
    /\ StoreIdle
    /\ TypingIdle
    /\ PresenceIdle
    /\ UiIdle

\* A raw message arrives from the API or in a message event.
PayloadReceived(raw) ==
    /\ rawPayload' = raw
    /\ displayed' = NotDisplayed
    /\ UNCHANGED <<clientVars, resolverVars, storeVars, typingVars, presenceVars,
                   dispatchVars, composeVars, navVars, stageVars>>

\* toTheaterMessage(raw) builds the display message.
DisplayMessageBuilt ==
    /\ displayed' = toTheaterCharacter(rawPayload)
    /\ UNCHANGED rawPayload
    /\ UNCHANGED <<clientVars, resolverVars, storeVars, typingVars, presenceVars,
                   dispatchVars, composeVars, navVars, stageVars>>

CharacterNext ==
    \/ \E raw \in RawPayloads : PayloadReceived(raw)
    \/ DisplayMessageBuilt

CharacterSpec == CharacterInit /\ [][CharacterNext]_vars

\* ------------------------------------------ the whisper recipient pills
\* The ids a caller can name; of each type id 1 can be resolved (the user
\* and the group exist, the persona exists, the puppet exists in stream 1)
\* and id 2 cannot.
RecipientIds == {1, 2}

\* people.maybe_get_user_by_id, user_groups.maybe_get_user_group_from_id,
\* stream_puppets.get_puppets_for_stream, personas.get_realm_personas
KnownIds(type, stream_id) ==
    IF type = "puppet" THEN (IF stream_id = 1 THEN {1} ELSE {}) ELSE {1}

Pill(type, id) == [type |-> type, id |-> id]

\* user_pill.get_user_ids, user_group_pill.get_group_ids, get_puppet_ids,
\* get_persona_ids
PillIds(items, type) == {item.id : item \in {i \in items : i.type = type}}

\* set_from_user_ids, set_from_group_ids, set_from_puppet_ids,
\* set_from_persona_ids: a pill for every id that can be resolved.
SetFromIds(items, type, ids, stream_id) ==
    IF type = "puppet" /\ stream_id = NoStream
    THEN items
    ELSE items \cup {Pill(type, id) : id \in ids \cap KnownIds(type, stream_id)}

ComposeInit ==
    /\ ClientIdle
    /\ ResolverIdle
    /\ StoreIdle
    /\ TypingIdle
    /\ PresenceIdle
    /\ UiIdle

\* set_current_stream_id(stream_id)
set_current_stream_id(stream_id) ==
    /\ current_stream_id' = stream_id
    /\ UNCHANGED <<pills, composeState>>
    /\ UNCHANGED <<clientVars, resolverVars, storeVars, typingVars, presenceVars,
                   dispatchVars, characterVars, navVars, stageVars>>

\* set_from_all_ids(user_ids, group_ids, puppet_ids, persona_ids)
set_from_all_ids(user_ids, group_ids, puppet_ids, persona_ids) ==
    /\ pills' = SetFromIds(
                  SetFromIds(
                    SetFromIds(
                      SetFromIds({}, "user", user_ids, current_stream_id),
                      "user_group", group_ids, current_stream_id),
                    "puppet", puppet_ids, current_stream_id),
                  "persona", persona_ids, current_stream_id)
    /\ composeState' = ComposeRecipients(user_ids, group_ids, puppet_ids,
                                         persona_ids)
    /\ UNCHANGED current_stream_id
    /\ UNCHANGED <<clientVars, resolverVars, storeVars, typingVars, presenceVars,
                   dispatchVars, characterVars, navVars, stageVars>>

\* update_compose_state()
update_compose_state(items) ==
    ComposeRecipients(PillIds(items, "user"), PillIds(items, "user_group"),
                      PillIds(items, "puppet"), PillIds(items, "persona"))

\* The user picks an entry of the typeahead: the pill is appended and the
\* onPillCreate callback runs update_compose_state.
PillCreated(type, id) ==
    /\ id \in KnownIds(type, current_stream_id)
    /\ Pill(type, id) \notin pills
    /\ pills' = pills \cup {Pill(type, id)}
    /\ composeState' = update_compose_state(pills')
    /\ UNCHANGED current_stream_id
    /\ UNCHANGED <<clientVars, resolverVars, storeVars, typingVars, presenceVars,
                   dispatchVars, characterVars, navVars, stageVars>>

\* The user removes a pill: the onPillRemove callback runs
\* update_compose_state.
PillRemoved(pill) ==
    /\ pill \in pills
    /\ pills' = pills \ {pill}
    /\ composeState' = update_compose_state(pills')
    /\ UNCHANGED current_stream_id
    /\ UNCHANGED <<clientVars, resolverVars, storeVars, typingVars, presenceVars,
                   dispatchVars, characterVars, navVars, stageVars>>

\* clear()
clearPills ==
    /\ pills' = {}
    /\ composeState' = ComposeRecipients({}, {}, {}, {})
    /\ UNCHANGED current_stream_id
    /\ UNCHANGED <<clientVars, resolverVars, storeVars, typingVars, presenceVars,
                   dispatchVars, characterVars, navVars, stageVars>>

ComposeNext ==
    \/ \E stream_id \in {NoStream, 1, 2} : set_current_stream_id(stream_id)
    \/ \E u, g, p, q \in SUBSET RecipientIds : set_from_all_ids(u, g, p, q)
    \/ \E type \in {"user", "user_group", "puppet", "persona"} :
          \E id \in RecipientIds : PillCreated(type, id)
    \/ \E pill \in pills : PillRemoved(pill)
    \/ clearPills

ComposeSpec == ComposeInit /\ [][ComposeNext]_vars

\* ------------------------------------------------ the navigation store
\* The characters of a topic: a letter, and three that encodeURIComponent
\* escapes.
TopicChars == {"t", " ", "%", "/"}

Topics == UNION {[1..n -> TopicChars] : n \in 0..MaxTopicLen}

\* Stream ids of one and of two decimal digits.
NavStreamIds == {1, 10}

DigitChars == <<"0", "1", "2", "3", "4", "5", "6", "7", "8", "9">>

IsDigit(c) == \E d \in 1..10 : DigitChars[d] = c

\* `${streamId}`
RECURSIVE ToDigits(_)
ToDigits(n) ==
    IF n < 10 THEN <<DigitChars[n + 1]>>
    ELSE ToDigits(n \div 10) \o <<DigitChars[(n % 10) + 1]>>

\* parseInt(digits, 10) of a run of decimal digits
RECURSIVE ParseDigits(_)
ParseDigits(digits) ==
    IF digits = <<>> THEN 0
    ELSE 10 * ParseDigits(SubSeq(digits, 1, Len(digits) - 1))
         + ((CHOOSE d \in 1..10 : DigitChars[d] = digits[Len(digits)]) - 1)

\* encodeURIComponent of one character
EncodeChar(c) ==
    CASE c = " " -> <<"%", "2", "0">>
      [] c = "%" -> <<"%", "2", "5">>
      [] c = "/" -> <<"%", "2", "F">>
      [] OTHER -> <<c>>

RECURSIVE encodeURIComponent(_)
encodeURIComponent(chars) ==
    IF chars = <<>> THEN <<>>
    ELSE EncodeChar(Head(chars)) \o encodeURIComponent(Tail(chars))

\* The escape sequences that occur in the hashes of the model.
Escapes == {<<"2", "0">>, <<"2", "5">>, <<"2", "F">>}

DecodeEscape(pair) ==
    CASE pair = <<"2", "0">> -> " "
      [] pair = <<"2", "5">> -> "%"
      [] pair = <<"2", "F">> -> "/"

URIError == <<"URIError">>

\* decodeURIComponent: a "%" that does not start an escape sequence throws.
RECURSIVE decodeURIComponent(_)
decodeURIComponent(chars) ==
    IF chars = <<>> THEN <<>>
    ELSE IF Head(chars) # "%"
    THEN LET rest == decodeURIComponent(Tail(chars))
         IN  IF rest = URIError THEN URIError ELSE <<Head(chars)>> \o rest
    ELSE IF Len(chars) < 3 \/ SubSeq(chars, 2, 3) \notin Escapes
    THEN URIError
    ELSE LET rest == decodeURIComponent(SubSeq(chars, 4, Len(chars)))
         IN  IF rest = URIError THEN URIError
             ELSE <<DecodeEscape(SubSeq(chars, 2, 3))>> \o rest

StreamPrefix == <<"s", "t", "r", "e", "a", "m", "/">>
ScenePrefix == <<"/", "s", "c", "e", "n", "e", "/">>

StartsWith(chars, prefix) ==
    /\ Len(chars) >= Len(prefix)
    /\ SubSeq(chars, 1, Len(prefix)) = prefix

Drop_(chars, n) == SubSeq(chars, n + 1, Len(chars))

\* The length of the run of digits at the head of chars.
DigitRun(chars) ==
    CHOOSE n \in 0..Len(chars) :
        /\ \A i \in 1..n : IsDigit(chars[i])
        /\ n < Len(chars) => ~IsDigit(chars[n + 1])

\* buildHash(streamId, topic)
buildHash(streamId, topic) ==
    IF streamId = NullStreamId \/ topic = NullTopic THEN <<>>
    ELSE <<"#">> \o StreamPrefix \o ToDigits(streamId) \o ScenePrefix
         \o encodeURIComponent(topic)

\* parseHash() on window.location.hash = hash: the scene, or threw.
parseHash(hash) ==
    LET text == Drop_(hash, 1)
        afterStream == Drop_(text, Len(StreamPrefix))
        digits == DigitRun(afterStream)
        afterDigits == Drop_(afterStream, digits)
        encoded == Drop_(afterDigits, Len(ScenePrefix))
        matches == /\ StartsWith(text, StreamPrefix)
                   /\ digits >= 1
                   /\ StartsWith(afterDigits, ScenePrefix)
                   /\ Len(encoded) >= 1
    IN  IF hash = <<>> \/ ~matches
        THEN [threw |-> FALSE, scene |-> Scene(NullStreamId, NullTopic)]
        ELSE IF decodeURIComponent(encoded) = URIError
        THEN [threw |-> TRUE]
        ELSE [threw |-> FALSE,
              scene |-> Scene(ParseDigits(SubSeq(afterStream, 1, digits)),
                              decodeURIComponent(encoded))]

\* The hashes a history entry can carry: the ones the store writes, and two
\* the user typed into the address bar.
TypedHashes ==
    { <<"#">> \o StreamPrefix \o <<"1">> \o ScenePrefix \o <<"%">>,
      <<"#", "t">> }

Hashes ==
    {buildHash(streamId, topic) :
        streamId \in NavStreamIds \cup {NullStreamId},
        topic \in Topics \cup {NullTopic}}
    \cup TypedHashes

NavInit ==
    /\ ClientIdle
    /\ ResolverIdle
    /\ StoreIdle
    /\ TypingIdle
    /\ PresenceIdle
    /\ UiIdle

\* setCurrentScene(streamId, topic, {replaceHistory}) called by the user
\* interface; history is what updateUrl did to the session history.
setCurrentScene(streamId, topic, replaceHistory) ==
    /\ navigation' = Scene(streamId, topic)
    /\ locationHash' = IF handlingPopstate THEN locationHash
                       ELSE buildHash(streamId, topic)
    /\ navStep' = [op |-> "setCurrentScene", streamId |-> streamId,
                   topic |-> topic,
                   history |-> IF handlingPopstate THEN "none"
                               ELSE IF replaceHistory THEN "replaceState"
                               ELSE "pushState"]
    /\ UNCHANGED handlingPopstate
    /\ UNCHANGED <<clientVars, resolverVars, storeVars, typingVars, presenceVars,
                   dispatchVars, characterVars, composeVars, stageVars>>

\* initFromUrl()
initFromUrl ==
    LET parsed == parseHash(locationHash)
    IN  /\ navigation' =
              IF ~parsed.threw /\ parsed.scene.currentStreamId # NullStreamId
                 /\ parsed.scene.currentTopic # NullTopic
              THEN parsed.scene
              ELSE navigation
        /\ navStep' = [op |-> "initFromUrl", threw |-> parsed.threw,
                       history |-> "none"]
        /\ UNCHANGED <<locationHash, handlingPopstate>>
        /\ UNCHANGED <<clientVars, resolverVars, storeVars, typingVars,
                       presenceVars, dispatchVars, characterVars, composeVars,
                       stageVars>>

\* The browser moves to a history entry with the given hash and the
\* popstate listener calls handlePopstate().
handlePopstate(hash) ==
    LET parsed == parseHash(hash)
    IN  /\ locationHash' = hash
        /\ navigation' = IF parsed.threw THEN navigation ELSE parsed.scene
        /\ handlingPopstate' = parsed.threw
        /\ navStep' = [op |-> "handlePopstate", threw |-> parsed.threw,
                       history |-> "none"]
        /\ UNCHANGED <<clientVars, resolverVars, storeVars, typingVars,
                       presenceVars, dispatchVars, characterVars, composeVars,
                       stageVars>>

\* reset()
resetNavigation ==
    /\ navigation' = Scene(NullStreamId, NullTopic)
    /\ navStep' = [op |-> "reset", history |-> "none"]
    /\ UNCHANGED <<locationHash, handlingPopstate>>
    /\ UNCHANGED <<clientVars, resolverVars, storeVars, typingVars, presenceVars,
                   dispatchVars, characterVars, composeVars, stageVars>>

NavNext ==
    \/ \E streamId \in NavStreamIds \cup {NullStreamId} :
          \E topic \in Topics \cup {NullTopic} :
             \E replaceHistory \in BOOLEAN :
                setCurrentScene(streamId, topic, replaceHistory)
    \/ initFromUrl
    \/ \E hash \in Hashes : handlePopstate(hash)
    \/ resetNavigation

NavSpec == NavInit /\ [][NavNext]_vars

\* ------------------------------------------- loading the scene on show
\* The scenes are the streams, each with the one topic "t0".
StageMessage(id) == RawMessage(id, 2, serverMessages[id], Null)

\* The ids of the messages the server holds in a scene, ascending.
ServerIds(scene) ==
    SelectSeq([i \in 1..Len(serverMessages) |-> i],
              LAMBDA id : serverMessages[id] = scene)

\* $messages.filter((m) => m.streamId === streamId && m.topic === topic)
sceneMessages(list, scene) ==
    SelectSeq(list, LAMBDA m : m.stream_id = scene)

StageInit ==
    /\ ClientIdle
    /\ ResolverIdle
    /\ StoreIdle
    /\ TypingIdle
    /\ PresenceIdle
    /\ UiIdle

\* The scene on show changes: the $effect calls loadMessages(), which sends
\* the fetchMessages request for that scene.
SceneSelected(scene) ==
    /\ scene # stageScene
    /\ \A load \in loads : load.scene # scene
    /\ stageScene' = scene
    /\ loads' = loads \cup {[scene |-> scene, answered |-> FALSE, result |-> <<>>]}
    /\ UNCHANGED <<serverMessages, stageEvents>>
    /\ UNCHANGED <<clientVars, resolverVars, storeVars, typingVars, presenceVars,
                   dispatchVars, characterVars, composeVars, navVars>>

\* The server answers a fetchMessages request with the messages the scene
\* holds at that moment.
FetchAnswered(load) ==
    /\ load \in loads
    /\ ~load.answered
    /\ loads' = (loads \ {load}) \cup
                {[scene |-> load.scene, answered |-> TRUE,
                  result |-> ServerIds(load.scene)]}
    /\ UNCHANGED <<stageScene, serverMessages, stageEvents>>
    /\ UNCHANGED <<clientVars, resolverVars, storeVars, typingVars, presenceVars,
                   dispatchVars, characterVars, composeVars, navVars>>

\* Somebody sends a message to a scene: the server stores it under the next
\* id and queues its message event.
MessageSent(scene) ==
    /\ Len(serverMessages) < MaxMessageId
    /\ serverMessages' = Append(serverMessages, scene)
    /\ stageEvents' = Append(stageEvents, Len(serverMessages) + 1)
    /\ UNCHANGED <<stageScene, loads>>
    /\ UNCHANGED <<clientVars, resolverVars, storeVars, typingVars, presenceVars,
                   dispatchVars, characterVars, composeVars, navVars>>

\* The next message event arrives: handleMessageEvent.
MessageEventArrived ==
    /\ stageEvents # <<>>
    /\ messages' = addMessage(messages,
                              toTheaterMessage(StageMessage(Head(stageEvents))))
    /\ lastEvent' = [type |-> "message",
                     message |-> StageMessage(Head(stageEvents))]
    /\ notified' = <<messages'>>
    /\ stageEvents' = Tail(stageEvents)
    /\ UNCHANGED <<stageScene, loads, serverMessages>>
    /\ UNCHANGED <<clientVars, resolverVars, typingVars, presenceVars,
                   dispatchVars, characterVars, composeVars, navVars>>

\* The response of fetchMessages arrives: loadMessages() goes on after its
\* await and replaces the store.
LoadCompleted(load) ==
    /\ load \in loads
    /\ load.answered
    /\ messages' = setMessages(messages,
                               [i \in 1..Len(load.result) |->
                                   toTheaterMessage(StageMessage(load.result[i]))])
    /\ notified' = <<messages'>>
    /\ lastEvent' = [type |-> "loadMessages"]
    /\ loads' = loads \ {load}
    /\ UNCHANGED <<stageScene, serverMessages, stageEvents>>
    /\ UNCHANGED <<clientVars, resolverVars, typingVars, presenceVars,
                   dispatchVars, characterVars, composeVars, navVars>>

StageNext ==
    \/ \E scene \in StreamIds : SceneSelected(scene)
    \/ \E load \in loads : FetchAnswered(load)
    \/ \E scene \in StreamIds : MessageSent(scene)
    \/ MessageEventArrived
    \/ \E load \in loads : LoadCompleted(load)

StageSpec == StageInit /\ [][StageNext]_vars

\* ------------------------------------------------------------------ claims

\* Only one queue has been registered in this page life, so every logged
\* event id belongs to the same queue.
SingleQueue == nextQueue <= 2

\* The step that produced the current state sent a GET /json/events.
RequestSent == lastStep \in {"timerPoll", "deliver"}

\* C1: at most one long-poll request is in flight in every reachable state.
OneRequestInFlight == Cardinality(InFlight) <= 1

\* C2: while the queue id stays the same, lastEventId never decreases.
LastEventIdMonotonic ==
    [][eventQueueId' = eventQueueId => lastEventId' >= lastEventId]_vars

\* C2 witness: a batch whose ids are all below lastEventId has been processed.
LowerEventIdDelivered ==
    lastStep = "deliver" /\ lastBatchMax >= 0 /\ lastBatchMax < lastEventId

\* C3: the events of one queue are dispatched in non-decreasing id order
\* (stated for the states reached by a batch that no handler rejected).
DispatchedInIdOrder ==
    (SingleQueue /\ lastStep = "deliver") =>
        \A i, j \in 1..Len(dispatched) : i < j => dispatched[i] <= dispatched[j]

\* C4: no event id of a queue is dispatched twice
\* (stated for the states reached by a batch that no handler rejected).
EventDispatchedOnce ==
    (SingleQueue /\ lastStep = "deliver") =>
        \A i, j \in 1..Len(dispatched) : i # j => dispatched[i] # dispatched[j]

\* C5: once a non-empty batch of a successful poll has been handled,
\* lastEventId is the maximum of its previous value and the ids of the batch,
\* and a request sent by that step carries that value and the current queue id.
LastEventIdIsBatchMax ==
    [][(lastStep' \in {"deliver", "deliverLast", "throw"} /\ lastBatchMax' >= 0) =>
          /\ lastEventId' = (IF lastBatchMax' > lastEventId THEN lastBatchMax'
                                                            ELSE lastEventId)
          /\ lastStep' = "deliver" =>
                 lastRequest' = [queue_id |-> eventQueueId',
                                 last_event_id |-> lastEventId']]_vars

\* C6: the step that receives status 400 schedules no retry and sends no
\* request, and no later step sends a request for a queue reported expired.
QueueExpiredIsTerminal ==
    [][/\ lastStep' = "fatal" => (timers' = timers /\ lastRequest' = NoRequest)
       /\ RequestSent' => lastRequest'.queue_id \notin expired']_vars

\* C7: a recoverable failure leaves lastEventId and the queue id unchanged.
FailureKeepsLastEventId ==
    [][lastStep' = "fail" =>
          (lastEventId' = lastEventId /\ eventQueueId' = eventQueueId)]_vars

\* C7 witness: a poll failed after events had advanced lastEventId.
FailureAfterAdvance ==
    lastStep = "fail" /\ dispatched # <<>> /\ lastEventId > 0

\* C8: a recoverable failure while polling is eventually followed by a new
\* poll request issued by the backoff timer, unless the client is stopped.
BackoffLeadsToPoll ==
    (lastStep = "fail" /\ isPolling) ~> (lastStep = "timerPoll" \/ ~isPolling)

\* C8 witness: the backoff timer of a failed poll fired and sent the retry,
\* the only request in flight (no event was ever dispatched, so the timer
\* comes from a transport failure, not from a throwing handler).
RetriedAfterBackoff ==
    /\ lastStep = "timerPoll" /\ timers = 0 /\ Cardinality(polls) = 1
    /\ dispatched = <<>>

\* C9: while the client is stopped (cleanup called, not initialized again)
\* no step sends a poll request and no step dispatches an event.
StoppedIsTerminal ==
    [][(~isPolling /\ lastStep' \notin {"init", "unload"}) =>
          /\ dispatched' = dispatched
          /\ ~RequestSent']_vars

\* C10: when cleanupEventHandler returns, the client is stopped and every
\* request still pending has had its abort signal triggered.
CleanupAbortsAll ==
    lastStep = "cleanup" => (~isPolling /\ \A r \in polls : r.aborted)

\* C11: when cleanupEventHandler returns (the client is stopped) no backoff
\* timer created by setTimeout(poll, 5000) is still pending.
CleanupLeavesNoTimer ==
    lastStep = "cleanup" => timers = 0

\* C14: a batch that holds a malformed event is still dispatched to its
\* end (the event with the largest id of the batch is among the events
\* dispatched by that step) and the step schedules no backoff timer.
MalformedEventIsDropped ==
    [][(lastStep' \in {"deliver", "deliverLast", "throw"} /\ lastBatchMax' >= 0) =>
          /\ timers' = timers
          /\ \E i \in (Len(dispatched) + 1)..Len(dispatched') :
                dispatched'[i] = lastBatchMax']_vars

\* C12: the message store holds no whisper that isVisible rejects for the
\* local viewer.
StoreHoldsNoInvisibleWhisper ==
    \A i \in 1..Len(messages) :
        messages[i].isWhisper => isVisible(messages[i], LocalViewer)

\* C13: no two entries of the message store have the same id.
StoredIdsAreUnique ==
    \A i, j \in 1..Len(messages) : i # j => messages[i].id # messages[j].id

\* The result of the newest isVisible call.
LastResult == isVisibleResults[Len(isVisibleResults)]

\* C15: the sender of a whisper sees it, for any recipient lists and any
\* state of the directory.
SenderSeesOwnWhisper ==
    whisper.isWhisper => isVisible(whisper, whisper.sender_id)

\* C15 witness: the local viewer sent a whisper that names nobody (directly
\* or through a puppet or a persona) but an existing group the viewer is not
\* a member of, and the call answered visible.
SenderNotAmongRecipients ==
    /\ whisper.isWhisper
    /\ whisper.sender_id = LocalViewer
    /\ whisper.whisper_recipients = Recipients({}, {1}, {}, {})
    /\ 1 \in DOMAIN groupMembers
    /\ LocalViewer \notin groupMembers[1]
    /\ isVisibleResults # <<>>
    /\ LastResult

\* The local viewer can see the whisper through its groups at most: the
\* viewer is not the sender, not a listed user, and no puppet or persona is
\* listed.
ViewerReachedByGroupOnly ==
    /\ whisper.isWhisper
    /\ whisper.sender_id # LocalViewer
    /\ LocalViewer \notin whisper.whisper_recipients.user_ids
    /\ whisper.whisper_recipients.group_ids # {}
    /\ whisper.whisper_recipients.puppet_ids = {}
    /\ whisper.whisper_recipients.persona_ids = {}

\* C16: for a whisper the viewer can be reached by only through a group,
\* every isVisible call answers by the membership at the time of the call.
GroupMembershipIsLive ==
    [][(isVisibleResults' # isVisibleResults /\ ViewerReachedByGroupOnly) =>
          LastResult' =
             (\E g \in whisper.whisper_recipients.group_ids :
                 /\ g \in DOMAIN groupMembers'
                 /\ LocalViewer \in groupMembers'[g])]_vars

\* C16 witness: a call answered not visible, the viewer was added to the
\* group, and the next call answered visible.
VisibleAfterJoiningGroup ==
    /\ ViewerReachedByGroupOnly
    /\ isVisibleResults = <<FALSE, TRUE>>

\* C17: a whisper with four empty recipient lists is classified as a
\* whisper and is visible to its sender and to nobody else.
EmptyWhisperIsSenderOnly ==
    /\ \A raw \in RawMessages({1}, {NoRecipients}) :
          toTheaterMessage(raw).isWhisper
    /\ whisper.whisper_recipients = NoRecipients =>
          /\ whisper.isWhisper
          /\ \A v \in Users : isVisible(whisper, v) <=> v = whisper.sender_id

\* C17 witness: somebody else's whisper with empty recipient lists was
\* resolved for the local viewer, who is in a group and owns a persona.
EmptyWhisperHidden ==
    /\ whisper.whisper_recipients = NoRecipients
    /\ whisper.sender_id # LocalViewer
    /\ 1 \in DOMAIN groupMembers /\ LocalViewer \in groupMembers[1]
    /\ 1 \in DOMAIN personaOwner /\ personaOwner[1] = LocalViewer
    /\ isVisibleResults # <<>>
    /\ ~LastResult

\* C18: a raw message whose whisper_recipients is null is converted to a
\* non-whisper, and isVisible is true of it for every viewer.
NullIsNotAWhisper ==
    /\ \A raw \in RawMessages({1}, {Null}) :
          /\ ~toTheaterMessage(raw).isWhisper
          /\ toTheaterMessage(raw).whisper_recipients = Null
    /\ whisper.whisper_recipients = Null =>
          /\ ~whisper.isWhisper
          /\ \A v \in Users : isVisible(whisper, v)

\* C18 witness: somebody else's ordinary message was resolved for the local
\* viewer, who is in no group and owns no persona.
OrdinaryMessageVisible ==
    /\ whisper.whisper_recipients = Null
    /\ whisper.sender_id # LocalViewer
    /\ groupMembers = <<>>
    /\ personaOwner = <<>>
    /\ isVisibleResults # <<>>
    /\ LastResult

\* C19: a whisper addressed to personas and puppets only is visible to a
\* viewer other than the sender exactly when the viewer owns a listed
\* persona or handles a listed puppet in the channel of the message.
IndirectRecipientsResolve ==
    (/\ whisper.isWhisper
     /\ whisper.whisper_recipients.user_ids = {}
     /\ whisper.whisper_recipients.group_ids = {}) =>
        \A v \in Users \ {whisper.sender_id} :
            isVisible(whisper, v) <=>
               \/ \E q \in whisper.whisper_recipients.persona_ids :
                     q \in DOMAIN personaOwner /\ personaOwner[q] = v
               \/ \E p \in whisper.whisper_recipients.puppet_ids :
                     /\ resolvePuppetHandler(whisper.stream_id, p).found
                     /\ resolvePuppetHandler(whisper.stream_id, p).bot_id = v

\* C19 witness: a whisper to persona 1 only was not visible to the local
\* viewer, the viewer became the owner of persona 1, and the next call
\* answered visible.
VisibleToPersonaOwner ==
    /\ whisper.isWhisper
    /\ whisper.sender_id # LocalViewer
    /\ whisper.whisper_recipients = Recipients({}, {}, {}, {1})
    /\ 1 \in DOMAIN personaOwner /\ personaOwner[1] = LocalViewer
    /\ isVisibleResults = <<FALSE, TRUE>>

\* Every group, puppet and persona the whisper lists is unknown to the
\* directory, and at least one of each kind is listed.
OnlyUnknownRecipients ==
    /\ whisper.isWhisper
    /\ whisper.whisper_recipients.user_ids = {}
    /\ whisper.whisper_recipients.group_ids # {}
    /\ whisper.whisper_recipients.puppet_ids # {}
    /\ whisper.whisper_recipients.persona_ids # {}
    /\ \A g \in whisper.whisper_recipients.group_ids : g \notin DOMAIN groupMembers
    /\ \A q \in whisper.whisper_recipients.persona_ids : q \notin DOMAIN personaOwner
    /\ \A p \in whisper.whisper_recipients.puppet_ids :
          ~resolvePuppetHandler(whisper.stream_id, p).found

DeleteRemovesListedIds ==
    [][lastEvent'.type = "delete_message" =>
          LET ids == {lastEvent'.message_ids[k] :
                         k \in 1..Len(lastEvent'.message_ids)}
          IN messages' = SelectSeq(messages, LAMBDA m : m.id \notin ids)]_vars

\* C22 witness: an event listing two ids emptied the store with its second
\* removal, after its first one had left a message.
DeletedBothMessages ==
    /\ lastEvent.type = "delete_message"
    /\ Len(notified) = 2
    /\ notified[1] # <<>>
    /\ messages = <<>>

\* C26: every value the subscribers of the message store are called with
\* while one event is handled is the store as it was before the event or the
\* store with the whole event applied.
SubscribersSeeWholeEvents ==
    [][lastEvent'.type \in {"message", "update_message", "delete_message"} =>
          \A k \in 1..Len(notified') : notified'[k] \in {messages, messages'}]_vars

\* C27: the message store is changed by the handlers of message,
\* update_message and delete_message events only.
StoreChangedOnlyByEvents ==
    [][messages' # messages =>
          lastEvent'.type \in {"message", "update_message", "delete_message"}]_vars

\* C23: a typist listed under a key is later no longer listed there, unless
\* a new typing start for the same key and user arrives first; with no new
\* start the expiry timer removes the entry once the window has passed.
StaleTypistExpires ==
    \A tk \in TimeoutKeys :
        Listed(tk[1], tk[2])
            ~> (\/ ~Listed(tk[1], tk[2])
                \/ typingStep = [op |-> "start", key |-> tk[1], user |-> tk[2]])

\* C23 witness: the expiry timer of a typist ran a full window after the
\* typing start and took the entry out of the store.
TypistExpired ==
    /\ typingStep.op = "expire"
    /\ ~Listed(typingStep.key, typingStep.user)
    /\ timeoutKey(typingStep.key, typingStep.user) \in DOMAIN sinceStart
    /\ sinceStart[timeoutKey(typingStep.key, typingStep.user)] = TypingWindow

\* C24: a typing start leaves the user listed once under the key with one
\* timer of the full window, also when the user was listed before; there is
\* never more than one pending timer for a timeout key; and an expiry takes
\* an entry out only a full window after the latest typing start.
StartResetsExpiryTimer ==
    [][/\ typingStep'.op = "start" =>
            LET tk == timeoutKey(typingStep'.key, typingStep'.user)
            IN /\ ListedIn(typists', tk[1], tk[2])
               /\ Len(SelectSeq(typists'[tk[1]],
                                LAMBDA t : t.user_id = tk[2])) = 1
               /\ tk \in DOMAIN timeouts'
               /\ timeouts'[tk] = TypingWindow
               /\ {t \in typingTimers' : t.key = tk[1] /\ t.user = tk[2]}
                      = {Timer(tk[1], tk[2], TypingWindow)}
       /\ \A t1, t2 \in typingTimers' :
              t1.key = t2.key /\ t1.user = t2.user => t1 = t2
       /\ \A tk \in TimeoutKeys :
              (Listed(tk[1], tk[2]) /\ ~ListedIn(typists', tk[1], tk[2])
                    /\ typingStep'.op = "expire")
                  => sinceStart[tk] = TypingWindow]_vars

\* C24 witness: a typing start arrived for a user who was already listed and
\* whose timer had run down, and the timer is back at the full window.
RestartedWhileListed ==
    /\ typingStep.op = "start"
    /\ \E key \in DOMAIN typists :
          /\ Len(typists[key]) = 2
          /\ typists[key][1].user_id = typingStep.user
          /\ typingStep.key = key
          /\ timeouts[timeoutKey(key, typingStep.user)] = TypingWindow
          /\ timeouts[timeoutKey(key, typists[key][2].user_id)] = 0

\* C25: a presence event changes nothing for a user id the presence store
\* does not hold, and enters no member; of the members it names only the
\* status changes.
PresenceTouchesKnownStatusOnly ==
    [][presenceEvent'.type = "presence" =>
          /\ DOMAIN presence' = DOMAIN presence
          /\ \A u \in DOMAIN presence :
                /\ DOMAIN presence'[u] = DOMAIN presence[u]
                /\ \A f \in DOMAIN presence[u] \ {"status"} :
                      presence'[u][f] = presence[u][f]
                /\ ("presence" \notin DOMAIN presenceEvent'
                      \/ \A i \in 1..Len(presenceEvent'.presence) :
                            parseInt(presenceEvent'.presence[i].key) # u)
                      => presence'[u] = presence[u]]_vars

\* C25 witness: an event naming member 1 and the unknown user 2 was handled:
\* member 1 has the new status and user 2 is still not in the store.
UnknownUserIgnored ==
    /\ presenceEvent = [type |-> "presence",
                        presence |-> <<[key |-> "1", status |-> "idle"],
                                       [key |-> "2", status |-> "active"]>>]
    /\ DOMAIN presence = {1}
    /\ presence[1].status = "idle"

\* C28: cleanupEventHandler sends a DELETE for the queue id when one is set
\* and none otherwise; when the DELETE fails, nothing of the client's state
\* changes, nothing is scheduled and no DELETE is sent again.
DeleteIsBestEffort ==
    [][/\ lastStep' = "cleanup" =>
            IF eventQueueId # NoQueue
            THEN deleting' = deleting \cup {eventQueueId}
            ELSE deleting' = deleting
       /\ lastStep' = "deleteFailed" =>
            /\ deleting' \subseteq deleting
            /\ deleting' # deleting
            /\ UNCHANGED <<eventQueueId, lastEventId, isPolling, abortController,
                           polls, timers, reloadRequested, expired, nextQueue,
                           dispatched>>]_vars

\* C28 witness: the DELETE of a torn down session failed; the client is
\* stopped, holds no request and no timer, and no DELETE is in flight.
DeleteFailureSwallowed ==
    /\ lastStep = "deleteFailed"
    /\ eventQueueId # NoQueue
    /\ ~isPolling
    /\ polls = {}
    /\ timers = 0
    /\ deleting = {}

\* C29: when the response of a request arrives with no events while the
\* client is polling, the same step sends a new request with the queue id
\* of the request that completed and the last event id as it was, schedules
\* no backoff timer and dispatches nothing.
EmptyPollRepollsAtOnce ==
    [][(/\ isPolling
        /\ lastStep' \in {"deliver", "deliverLast"}
        /\ lastBatchMax' = 0 - 1) =>
          /\ lastStep' = "deliver"
          /\ lastEventId' = lastEventId
          /\ lastRequest'.last_event_id = lastEventId
          /\ \E r \in polls \ polls' : r.queue = lastRequest'.queue_id
          /\ timers' = timers
          /\ dispatched' = dispatched]_vars

\* C30: whatever the order of initializeEventHandler and cleanupEventHandler
\* calls, a polling client has one poll loop (one request in flight or one
\* backoff timer pending, never two), and the last event id only moves with
\* the events of a request that was sent with the current queue id.
SessionsNeverOverlap ==
    [][/\ isPolling' => (Cardinality(InFlight) + timers)' <= 1
       /\ (lastStep' \in {"deliver", "deliverLast", "throw"}
              /\ lastEventId' # lastEventId)
            => \E r \in polls \ polls' : r.queue = eventQueueId]_vars

\* C31: a client that is marked as polling and has met no expired queue is
\* never idle and never doubled: exactly one request is in flight or exactly
\* one backoff timer is pending (the dispatch of a batch is one step here,
\* so no state lies inside it).
PollingIsNeverIdle ==
    (isPolling /\ ~reloadRequested) => Cardinality(InFlight) + timers = 1

\* C32: dispatching an event of a type without a handler leaves the message,
\* typing and presence stores as they were, advances the last event id to
\* the event's id if that is larger, and leaves the events after it in the
\* batch to be dispatched.
UnhandledEventIsSkipped ==
    [][(/\ pendingEvents # <<>>
        /\ pendingEvents' # pendingEvents
        /\ lastEvent'.type \notin HandledTypes) =>
          /\ UNCHANGED <<messages, typists, timeouts, typingTimers, presence>>
          /\ lastEventId' = (IF lastEvent'.id > lastEventId
                             THEN lastEvent'.id ELSE lastEventId)
          /\ lastStep' = "dispatch"
          /\ pendingEvents' = Tail(pendingEvents)]_vars

\* C32 witness: an event of an unknown type with a new id was dispatched
\* with a message stored, a typist listed and another event of the batch
\* still to come.
UnknownEventDispatched ==
    /\ lastStep = "dispatch"
    /\ lastEvent.type = "realm_user"
    /\ lastEventId = lastEvent.id
    /\ lastEventId > 0
    /\ messages # <<>>
    /\ typists # <<>>
    /\ pendingEvents # <<>>

TypistListsAreSets ==
    [][/\ \A key \in DOMAIN typists' :
              /\ typists'[key] # <<>>
              /\ \A i, j \in 1..Len(typists'[key]) :
                    typists'[key][i].user_id = typists'[key][j].user_id => i = j
       /\ (typingStep'.op = "stop"
              /\ ~ListedIn(typists, typingStep'.key, typingStep'.user))
            => UNCHANGED <<typists, timeouts, typingTimers>>]_vars

\* C34 witness: a typing stop arrived for a user who was not listed under a
\* key that holds another typist.
StopOfAbsentTypist ==
    /\ typingStep.op = "stop"
    /\ ~typingStep.listed
    /\ typingStep.key \in DOMAIN typists
    /\ Len(typists[typingStep.key]) = 1

\* C35: a timeout key has a pending expiry timer exactly if its user is
\* listed under its (channel, topic) key, and then it has one timer, the one
\* registered in the timeouts map.
TimersMatchTypists ==
    \A tk \in TimeoutKeys :
        LET pendingFor == {t \in typingTimers : t.key = tk[1] /\ t.user = tk[2]}
        IN IF Listed(tk[1], tk[2])
           THEN /\ tk \in DOMAIN timeouts
                /\ pendingFor = {Timer(tk[1], tk[2], timeouts[tk])}
           ELSE /\ tk \notin DOMAIN timeouts
                /\ pendingFor = {}

\* C35 witness: one of two typists has been removed by a typing stop while
\* the timer of the other went on running.
StoppedOneOfTwo ==
    /\ typingStep.op = "stop"
    /\ typingStep.listed
    /\ Cardinality(typingTimers) = 1
    /\ \E t \in typingTimers : t.left < TypingWindow /\ Listed(t.key, t.user)

\* An override field of the raw payload holds a value.
Present(value) == value \notin {NoValue, NullValue}

\* C36: the character name and the character avatar of a display message
\* are the persona's when the payload has one, else the puppet's when it
\* has one, else the sender's; the sender id, name and avatar of the display
\* message are the payload's whatever the overrides.
CharacterByPriority ==
    displayed.built =>
        /\ displayed.characterName =
              (IF Present(rawPayload.persona_display_name)
               THEN rawPayload.persona_display_name
               ELSE IF Present(rawPayload.puppet_display_name)
                    THEN rawPayload.puppet_display_name
                    ELSE rawPayload.sender_full_name)
        /\ displayed.characterAvatar =
              (IF Present(rawPayload.persona_avatar_url)
               THEN rawPayload.persona_avatar_url
               ELSE IF Present(rawPayload.puppet_avatar_url)
                    THEN rawPayload.puppet_avatar_url
                    ELSE rawPayload.avatar_url)
        /\ displayed.sender_id = rawPayload.sender_id
        /\ displayed.sender_full_name = rawPayload.sender_full_name
        /\ displayed.avatar_url = rawPayload.avatar_url

\* C36 witness: a payload with both a persona and a puppet name, a puppet
\* avatar and no persona avatar was displayed under the persona's name with
\* the puppet's avatar, sent by user 2.
PersonaNameOverPuppet ==
    /\ displayed.built
    /\ rawPayload.persona_display_name = "Persona"
    /\ rawPayload.puppet_display_name = "Puppet"
    /\ rawPayload.persona_avatar_url = NoValue
    /\ displayed.characterName = "Persona"
    /\ displayed.characterAvatar = "puppet.png"
    /\ displayed.sender_id = 2

\* C37: the four id lists of the compose state are the ids of the pills of
\* each type shown in the whisper pill widget.
ComposeStateMatchesPills ==
    composeState = update_compose_state(pills)

\* C38: the hash that setCurrentScene wrote to the URL for a stream id and
\* a topic parses back to that stream id and that topic.
HashRoundTrips ==
    (/\ navStep.op = "setCurrentScene"
     /\ navStep.history # "none"
     /\ navStep.streamId # NullStreamId
     /\ navStep.topic # NullTopic) =>
        /\ ~parseHash(locationHash).threw
        /\ parseHash(locationHash).scene = Scene(navStep.streamId, navStep.topic)

\* C39: handlePopstate writes no history entry, and between calls the
\* handlingPopstate flag is false.
PopstateLeavesNoTrace ==
    /\ navStep.op = "handlePopstate" => navStep.history = "none"
    /\ ~handlingPopstate

\* C40: when a scene is on show, no load is outstanding and every message
\* event has been delivered, the store holds the messages of that scene.
StoreHoldsSceneOnShow ==
    (stageScene # NoScene /\ loads = {} /\ stageEvents = <<>>) =>
        LET shown == sceneMessages(messages, stageScene)
            held == ServerIds(stageScene)
        IN  {shown[i].id : i \in 1..Len(shown)} = {held[i] : i \in 1..Len(held)}

====
